---------------------------- MODULE Spec2Model ----------------------------
(***************************************************************************)
(* Fontfeel: glyph-geometry analysers and the personality scoring engine   *)
(* of font_validator.py.                                                   *)
(*                                                                         *)
(* Conventions of the model                                                *)
(*  - A Python dict is a TLA+ function on its keys (a record); an optional *)
(*    key is a key that is or is not in DOMAIN.                            *)
(*  - Python None is the empty tuple <<>>; a number that may be None is    *)
(*    <<>> or a rational.                                                  *)
(*  - A Python float is an exact rational <<n, d>> with d > 0 (the inputs  *)
(*    are chosen so that every square root taken is exact).  Trait values  *)
(*    only ever move in steps of 0.5 and are kept in half units            *)
(*    (H(1) = 2 half units = 1.0).                                         *)
(*  - An exception raised inside a try block is the value Raise(msg); the  *)
(*    except clause of the function turns it into the handler's value.     *)
(*  - A string is a TLA+ string; "kw in s.lower()" is a lookup in the      *)
(*    table Keywords(s) of the code's keywords that occur in s.            *)
(***************************************************************************)
EXTENDS Integers, Sequences, FiniteSets, TLC

\* ttfont: the loaded TTFont object; info: the font_info dict handed to the
\* scoring engine; op: the function that ran; out: what it returned
VARIABLES ttfont, info, pc, op, out

vars == <<ttfont, info, pc, op, out>>

---------------------------------------------------------------------------
(* Generic helpers                                                         *)

None == <<>>

Raise(msg) == [exc |-> msg]

\* a returned value that is not a dict, next to Raise
Ret(v) == [ret |-> v]

IsExc(v) == DOMAIN v = {"exc"}

\* try: ... except Exception as e: ...; r is what the try block gives (a
\* value, or the exception it raises) and Handler(e) what the except clause
\* returns
Except(r, Handler(_)) == IF IsExc(r) THEN Handler(r) ELSE r

Has(d, k) == k \in DOMAIN d

Abs(x) == IF x < 0 THEN -x ELSE x

Max2(a, b) == IF a >= b THEN a ELSE b

Min2(a, b) == IF a <= b THEN a ELSE b

RECURSIVE GCD(_, _)
GCD(a, b) == IF b = 0 THEN a ELSE GCD(b, a % b)

\* the rational n/d in lowest terms with a positive denominator (d # 0)
Rat(n, d) ==
  LET g == GCD(Abs(n), Abs(d))
      s == IF d < 0 THEN -1 ELSE 1
  IN  <<(s * n) \div g, (s * d) \div g>>

RInt(n) == <<n, 1>>

RAdd(a, b) ==
  LET l == (a[2] \div GCD(a[2], b[2])) * b[2]
  IN  Rat(a[1] * (l \div a[2]) + b[1] * (l \div b[2]), l)

RSub(a, b) == RAdd(a, <<-b[1], b[2]>>)

RMul(a, b) ==
  LET g1 == GCD(Abs(a[1]), b[2])
      g2 == GCD(Abs(b[1]), a[2])
  IN  Rat((a[1] \div g1) * (b[1] \div g2), (a[2] \div g2) * (b[2] \div g1))

\* a / b for b # 0
RDiv(a, b) == RMul(a, Rat(b[2], b[1]))

RLt(a, b) == a[1] * b[2] < b[1] * a[2]

RGt(a, b) == RLt(b, a)

RAbs(a) == <<Abs(a[1]), a[2]>>

RECURSIVE RSum(_)
RSum(s) == IF s = <<>> THEN RInt(0) ELSE RAdd(Head(s), RSum(Tail(s)))

RECURSIVE SumSeq(_)
SumSeq(s) == IF s = <<>> THEN 0 ELSE Head(s) + SumSeq(Tail(s))

RECURSIVE SeqMin(_)
SeqMin(s) == IF Len(s) = 1 THEN s[1] ELSE Min2(Head(s), SeqMin(Tail(s)))

RECURSIVE SeqMax(_)
SeqMax(s) == IF Len(s) = 1 THEN s[1] ELSE Max2(Head(s), SeqMax(Tail(s)))

Range(s) == {s[i] : i \in DOMAIN s}

\* the first n elements of s (s[:n])
Take(s, n) == SubSeq(s, 1, Min2(n, Len(s)))

---------------------------------------------------------------------------
(* Strings: lower-cased substring tests                                    *)

\* The keywords tested by the code ("kw in s.lower()") that occur in the
\* lower-cased string s, for every string the model uses.
Keywords(s) ==
  CASE s = "Roboto Sans"      -> {"roboto", "sans"}
    [] s = "Open Sans"        -> {"sans"}
    [] s = "Noto Serif"       -> {"serif"}
    [] s = "PT Sans Serif"    -> {"sans", "serif"}
    [] s = "Brush Script"     -> {"script", "brush"}
    [] s = "Art Deco Display" -> {"deco", "display"}
    [] s = "Script Display"   -> {"script", "display"}
    [] s = "Handwriting Sans" -> {"handwriting", "hand", "sans"}
    [] s = "Round Gothic"     -> {"round", "gothic"}
    [] s = "Roboto Serif"     -> {"roboto", "serif"}
    [] s = "Display Sans"     -> {"display", "sans"}
    [] s = "Dancing Display"  -> {"dancing", "display"}
    [] s = "Helvetica"        -> {}
    [] s = "Ultra Condensed"  -> {"condensed"}
    [] s = "Extra Condensed"  -> {"condensed"}
    [] s = "Condensed"        -> {"condensed"}
    [] s = "Semi Condensed"   -> {"condensed"}
    [] s = "Normal"           -> {}
    [] s = "Semi Expanded"    -> {"expanded"}
    [] s = "Expanded"         -> {"expanded"}
    [] s = "Extra Expanded"   -> {"expanded"}
    [] s = "Ultra Expanded"   -> {"expanded"}
    [] s = "Custom"           -> {}
    [] s = "very curvy"       -> {"very", "curvy", "curv"}
    [] s = "curvy"            -> {"curvy", "curv"}
    [] s = "moderately curvy" -> {"curvy", "curv"}
    [] s = "slightly curvy"   -> {"curvy", "curv"}
    [] s = "angular"          -> {"angular"}
    [] s = "balanced"         -> {}
    [] s = "unknown"          -> {}
    [] s = "error"            -> {}
    [] OTHER                  -> {}

\* kw in s.lower()
Contains(s, kw) == kw \in Keywords(s)

---------------------------------------------------------------------------
(* Personality scoring engine                                              *)

\* the keys of the personality dict, in insertion (declaration) order
TraitNames ==
  <<"formality", "friendliness", "strength", "elegance", "creativity",
    "modernity", "playfulness", "trustworthiness", "professionalism",
    "warmth", "dynamism">>

\* trait values are kept in half units
H(x) == 2 * x

Half == 1

ZeroTraits == [t \in Range(TraitNames) |-> 0]

\* personality[t] += d for every <<t, d>> of deltas
AddDeltas(p, deltas) ==
  [t \in DOMAIN p |->
     p[t] + SumSeq([i \in DOMAIN deltas |->
                      IF deltas[i][1] = t THEN deltas[i][2] ELSE 0])]

\* mutant: serif adds 0.5 to formality and elegance instead of 1
StyleRule_WeakSerif(style) ==
  CASE style = "serif" ->
         <<<<"formality", Half>>, <<"elegance", Half>>, <<"modernity", -H(1)>>>>
    [] OTHER -> <<>>

StyleRule(style) ==
  CASE style = "serif" ->
         <<<<"formality", H(1)>>, <<"elegance", H(1)>>, <<"modernity", -H(1)>>>>
    [] style = "sans-serif" ->
         <<<<"modernity", H(1)>>, <<"formality", Half>>>>
    [] style = "script" ->
         <<<<"elegance", H(1) + Half>>, <<"creativity", H(1) + Half>>,
           <<"playfulness", H(1)>>>>
    [] style = "decorative" ->
         <<<<"creativity", H(2)>>, <<"playfulness", H(1) + Half>>,
           <<"formality", -H(1)>>>>
    [] style = "monospace" ->
         <<<<"modernity", Half>>, <<"creativity", -H(1)>>>>
    [] OTHER -> <<>>

WeightRule(weight_by_stroke) ==
  IF weight_by_stroke \in {"thin", "light"}
    THEN <<<<"elegance", H(1)>>, <<"strength", -H(1)>>>>
  ELSE IF weight_by_stroke \in {"medium", "bold"}
    THEN <<<<"strength", H(1)>>>>
  ELSE IF weight_by_stroke \in {"extra bold", "black"}
    THEN <<<<"strength", H(2)>>, <<"formality", -Half>>>>
  ELSE <<>>

WidthRule(width_desc) ==
  IF Contains(width_desc, "condensed")
    THEN <<<<"modernity", Half>>, <<"elegance", -Half>>>>
  ELSE IF Contains(width_desc, "expanded")
    THEN <<<<"elegance", Half>>, <<"friendliness", Half>>>>
  ELSE <<>>

ShapeRule(shape_type) ==
  IF Contains(shape_type, "curvy")
    THEN <<<<"friendliness", H(1)>>, <<"playfulness", Half>>>>
         \o (IF Contains(shape_type, "very")
               THEN <<<<"friendliness", Half>>, <<"playfulness", Half>>>>
               ELSE <<>>)
  ELSE IF Contains(shape_type, "angular")
    THEN <<<<"strength", H(1)>>, <<"formality", Half>>>>
  ELSE <<>>

\* mutant: loose spacing adds 0.5 to warmth as well
SpacingRule_Warm(spacing_type) ==
  IF spacing_type = "tight" THEN <<<<"modernity", Half>>>>
  ELSE IF spacing_type = "loose"
    THEN <<<<"friendliness", Half>>, <<"elegance", Half>>, <<"warmth", Half>>>>
  ELSE <<>>

SpacingRule(spacing_type) ==
  IF spacing_type = "tight" THEN <<<<"modernity", Half>>>>
  ELSE IF spacing_type = "loose"
    THEN <<<<"friendliness", Half>>, <<"elegance", Half>>>>
  ELSE <<>>

XHeightRule(vertical_metrics) ==
  IF Has(vertical_metrics, "x_height_class")
    THEN IF vertical_metrics.x_height_class = "large"
           THEN <<<<"friendliness", Half>>, <<"modernity", Half>>>>
         ELSE IF vertical_metrics.x_height_class = "small"
           THEN <<<<"elegance", Half>>, <<"formality", Half>>>>
         ELSE <<>>
    ELSE <<>>

AscDescRule(vertical_metrics) ==
  IF Has(vertical_metrics, "ascender_ratio") /\ Has(vertical_metrics, "descender_ratio")
    THEN (IF RGt(vertical_metrics.ascender_ratio, Rat(7, 10))
            THEN <<<<"elegance", Half>>, <<"formality", Half>>>> ELSE <<>>)
         \o (IF RGt(vertical_metrics.descender_ratio, Rat(3, 10))
               THEN <<<<"creativity", Half>>>> ELSE <<>>)
    ELSE <<>>

ContrastRule(contrast_info) ==
  IF Has(contrast_info, "contrast_type")
    THEN IF contrast_info.contrast_type \in {"high contrast", "extreme contrast"}
           THEN <<<<"elegance", H(1)>>, <<"formality", Half>>, <<"modernity", -Half>>>>
         ELSE IF contrast_info.contrast_type = "monoline"
           THEN <<<<"modernity", H(1)>>, <<"friendliness", Half>>>>
         ELSE <<>>
    ELSE <<>>

\* mutant: the upper bound is not applied
Clamp_NoUpper(v) == Max2(-H(2), v)

\* max(-2, min(2, value))
Clamp(v) == Max2(-H(2), Min2(H(2), v))

NormalizeTraits(p) == [t \in DOMAIN p |-> Clamp(p[t])]

\* the canned phrase of a trait at a level
Phrase(trait, level) ==
  CASE trait = "formality" ->
         (CASE level = "strong"     -> "projects considerable formality and seriousness"
            [] level = "mild"       -> "has a somewhat formal character"
            [] level = "strong_neg" -> "has a very casual and informal character"
            [] level = "mild_neg"   -> "has a relaxed, casual feel")
    [] trait = "friendliness" ->
         (CASE level = "strong"     -> "has a welcoming and approachable quality"
            [] level = "mild"       -> "appears friendly and accessible"
            [] level = "strong_neg" -> "may appear somewhat cold or distant"
            [] level = "mild_neg"   -> "has a slightly reserved quality")
    [] trait = "strength" ->
         (CASE level = "strong"     -> "projects considerable strength and confidence"
            [] level = "mild"       -> "conveys stability and assurance"
            [] level = "strong_neg" -> "appears delicate and light"
            [] level = "mild_neg"   -> "has a somewhat gentle character")
    [] trait = "elegance" ->
         (CASE level = "strong"     -> "exudes sophistication and elegance"
            [] level = "mild"       -> "has a refined, polished quality"
            [] level = "strong_neg" -> "has a deliberately unrefined, raw quality"
            [] level = "mild_neg"   -> "prioritizes function over aesthetic refinement")
    [] trait = "creativity" ->
         (CASE level = "strong"     -> "is highly creative and expressive"
            [] level = "mild"       -> "shows creative character"
            [] level = "strong_neg" -> "is very conventional and practical"
            [] level = "mild_neg"   -> "has a straightforward, no-nonsense quality")
    [] trait = "modernity" ->
         (CASE level = "strong"     -> "has a very contemporary, modern aesthetic"
            [] level = "mild"       -> "feels current and up-to-date"
            [] level = "strong_neg" -> "has a distinctly traditional or classical feel"
            [] level = "mild_neg"   -> "has somewhat traditional characteristics")
    [] trait = "playfulness" ->
         (CASE level = "strong"     -> "is playful and fun"
            [] level = "mild"       -> "has a touch of playfulness"
            [] level = "strong_neg" -> "is very serious and businesslike"
            [] level = "mild_neg"   -> "maintains a certain seriousness")
    [] trait = "trustworthiness" ->
         (CASE level = "strong"     -> "conveys a strong sense of trust and reliability"
            [] level = "mild"       -> "appears trustworthy and dependable"
            [] level = "strong_neg" -> "may appear untrustworthy or deceptive"
            [] level = "mild_neg"   -> "has a slightly untrustworthy quality")
    [] trait = "professionalism" ->
         (CASE level = "strong"     -> "exudes professionalism and competence"
            [] level = "mild"       -> "appears professional and polished"
            [] level = "strong_neg" -> "may appear unprofessional or amateurish"
            [] level = "mild_neg"   -> "has a slightly unprofessional quality")
    [] trait = "warmth" ->
         (CASE level = "strong"     -> "conveys a warm and inviting atmosphere"
            [] level = "mild"       -> "appears warm and friendly"
            [] level = "strong_neg" -> "may appear cold or distant"
            [] level = "mild_neg"   -> "has a slightly cold quality")
    [] trait = "dynamism" ->
         (CASE level = "strong"     -> "conveys energy and movement"
            [] level = "mild"       -> "appears dynamic and lively"
            [] level = "strong_neg" -> "may appear static or unchanging"
            [] level = "mild_neg"   -> "has a slightly static quality")

\* mutant: a value of 1 already gives the strong phrases
TraitPhrases_StrongFromOne(trait, value) ==
  IF value >= H(1) THEN <<Phrase(trait, "strong")>>
  ELSE IF value > 0 THEN <<Phrase(trait, "mild")>>
  ELSE IF value <= -H(1) THEN <<Phrase(trait, "strong_neg")>>
  ELSE IF value < 0 THEN <<Phrase(trait, "mild_neg")>>
  ELSE <<>>

\* the if/elif chain on one trait value: the phrases it appends (none or one)
TraitPhrases(trait, value) ==
  IF value > H(1) THEN <<Phrase(trait, "strong")>>
  ELSE IF value > 0 THEN <<Phrase(trait, "mild")>>
  ELSE IF value < -H(1) THEN <<Phrase(trait, "strong_neg")>>
  ELSE IF value < 0 THEN <<Phrase(trait, "mild_neg")>>
  ELSE <<>>

\* descriptions after the loop over personality.items(), for the keys ts
RECURSIVE Descriptions(_, _)
Descriptions(personality, ts) ==
  IF ts = <<>> THEN <<>>
  ELSE TraitPhrases(Head(ts), personality[Head(ts)])
       \o Descriptions(personality, Tail(ts))

\* ", ".join(ds), as the sequence of its pieces
RECURSIVE JoinComma(_)
JoinComma(ds) ==
  IF Len(ds) = 1 THEN ds ELSE <<Head(ds), ", ">> \o JoinComma(Tail(ds))

NeutralSentence ==
  <<"This font has a balanced personality without strongly pronounced characteristics.">>

\* mutant: no default sentence when no trait contributes a phrase
generate_emotional_description_NoDefault(personality) ==
  <<"This font ">> \o Descriptions(personality, TraitNames) \o <<".">>

\* A produced string is the sequence of the pieces that are concatenated.
generate_emotional_description(personality) ==
  LET descriptions == Descriptions(personality, TraitNames)
      n == Len(descriptions)
  IN  IF n = 0 THEN NeutralSentence
      ELSE IF n = 1 THEN <<"This font ", descriptions[1], ".">>
      ELSE IF n = 2
        THEN <<"This font ", descriptions[1], " and ", descriptions[2], ".">>
      ELSE <<"This font ">> \o JoinComma(SubSeq(descriptions, 1, n - 1))
           \o <<", and ", descriptions[n], ".">>

\* x placed after every element of the sorted list s whose value is >= its own
RECURSIVE InsertByValueDesc(_, _)
InsertByValueDesc(s, x) ==
  IF s = <<>> THEN <<x>>
  ELSE IF Head(s)[2] >= x[2] THEN <<Head(s)>> \o InsertByValueDesc(Tail(s), x)
  ELSE <<x>> \o s

\* traits.sort(key=lambda x: x[1], reverse=True): a stable sort
RECURSIVE SortByValueDesc(_)
SortByValueDesc(s) ==
  IF s = <<>> THEN <<>>
  ELSE InsertByValueDesc(SortByValueDesc(SubSeq(s, 1, Len(s) - 1)), s[Len(s)])

\* mutant: traits of value 0 are kept as well
PositiveTraits_NonNegative(personality) ==
  SelectSeq([i \in DOMAIN TraitNames |-> <<TraitNames[i], personality[TraitNames[i]]>>],
            LAMBDA tv : tv[2] >= 0)

\* [(trait, value) for trait, value in personality.items() if value > 0]
PositiveTraits(personality) ==
  SelectSeq([i \in DOMAIN TraitNames |-> <<TraitNames[i], personality[TraitNames[i]]>>],
            LAMBDA tv : tv[2] > 0)

DominantCount == 3

DominantTraits(personality) ==
  Take(SortByValueDesc(PositiveTraits(personality)), DominantCount)

\* the order in which a set of strings is iterated depends on the string
\* hashes of the interpreter run: a run is one of these
HashSeeds == {0, 1}

\* s without the later occurrences of an element
RECURSIVE Dedup(_)
Dedup(s) ==
  IF s = <<>> THEN <<>>
  ELSE LET front == Dedup(SubSeq(s, 1, Len(s) - 1))
       IN  IF s[Len(s)] \in Range(front) THEN front ELSE Append(front, s[Len(s)])

Reverse(s) == [i \in DOMAIN s |-> s[Len(s) + 1 - i]]

\* mutant: the list is reordered and no duplicate is removed
ListOfSet_KeepDuplicates(s, seed) == IF seed = 0 THEN s ELSE Reverse(s)

\* list(set(s)): the distinct elements of s, in the order of the run's hashes
ListOfSet(s, seed) == IF seed = 0 THEN Dedup(s) ELSE Reverse(Dedup(s))

When(cond, s) == IF cond THEN s ELSE <<>>

SuitableByTraits(p) ==
     When(p["formality"] > H(1) /\ p["elegance"] > 0,
          <<"Formal invitations", "Luxury branding", "High-end restaurant menus",
            "Wedding stationery">>)
  \o When(p["formality"] > 0 /\ p["modernity"] > 0,
          <<"Corporate communications", "Business websites", "Professional reports",
            "Legal documents">>)
  \o When(p["friendliness"] > H(1) /\ p["playfulness"] > 0,
          <<"Children's books", "Casual brand messaging", "Greeting cards",
            "Informal invitations">>)
  \o When(p["creativity"] > H(1) /\ p["playfulness"] > 0,
          <<"Creative agency branding", "Art exhibition materials",
            "Entertainment industry", "Festival promotions">>)
  \o When(p["modernity"] > H(1) /\ p["strength"] > 0,
          <<"Tech company branding", "Sports marketing", "Modern advertising",
            "App interfaces">>)
  \o When(p["elegance"] > H(1) /\ p["creativity"] > 0,
          <<"Fashion branding", "Beauty product packaging", "Lifestyle magazines",
            "Boutique marketing">>)

LessSuitableByTraits(p) ==
     When(p["formality"] > H(1) /\ p["elegance"] > H(1),
          <<"Casual social media posts", "Children's content", "Playful advertising">>)
  \o When(p["playfulness"] > H(1) /\ p["creativity"] > H(1),
          <<"Legal documents", "Academic papers", "Medical information",
            "Financial reports">>)
  \o When(p["modernity"] < -H(1) /\ p["creativity"] < -H(1),
          <<"Tech startups", "Modern digital interfaces", "Youth-oriented brands">>)

SuitableByStyle(style, weight_by_stroke) ==
     When(style = "serif" /\ weight_by_stroke \in {"regular", "medium"},
          <<"Long-form reading", "Book typography", "News publications">>)
  \o When(style = "sans-serif" /\ weight_by_stroke \in {"regular", "medium"},
          <<"User interfaces", "Signage", "Information design">>)
  \o When(style = "script",
          <<"Wedding invitations", "Certificates", "Greeting cards">>)
  \o When(style = "decorative",
          <<"Headlines", "Logo design", "Short display text">>)

LessSuitableByStyle(style) ==
     When(style = "script",
          <<"Long paragraphs of text", "Small size applications",
            "Technical documentation">>)
  \o When(style = "decorative",
          <<"Body text", "Long-form content", "Small size applications">>)

\* the lists before the duplicates are removed
SuitableAppended(font_info, personality) ==
  SuitableByTraits(personality)
  \o SuitableByStyle(font_info.style, font_info.weight.weight_by_stroke)

LessSuitableAppended(font_info, personality) ==
  LessSuitableByTraits(personality) \o LessSuitableByStyle(font_info.style)

determine_suitable_use_cases(font_info, personality, seed) ==
  [suitable_for      |-> ListOfSet(SuitableAppended(font_info, personality), seed),
   less_suitable_for |-> ListOfSet(LessSuitableAppended(font_info, personality), seed)]

\* font_info[k] and font_info[k][k2] of lines 755-761 raise no KeyError
HasRequiredKeys(font_info) ==
  /\ {"style", "weight", "width", "shape", "spacing"} \subseteq DOMAIN font_info
  /\ {"class", "weight_by_stroke"} \subseteq DOMAIN font_info.weight
  /\ Has(font_info.width, "description")
  /\ Has(font_info.shape, "type")
  /\ {"width_type", "spacing_type"} \subseteq DOMAIN font_info.spacing

\* font_info.get(k, {})
GetOrEmpty(font_info, k) == IF Has(font_info, k) THEN font_info[k] ELSE <<>>

\* mutant: an OS/2 weight class of 700 or more counts as 'bold'
RawTraits_ByWeightClass(font_info) ==
  LET vertical_metrics == GetOrEmpty(font_info, "vertical_metrics")
      contrast_info == GetOrEmpty(font_info, "contrast")
  IN  AddDeltas(ZeroTraits,
           StyleRule(font_info.style)
        \o WeightRule(IF font_info.weight.class >= 700 THEN "bold"
                      ELSE font_info.weight.weight_by_stroke)
        \o WidthRule(font_info.width.description)
        \o ShapeRule(font_info.shape.type)
        \o SpacingRule(font_info.spacing.spacing_type)
        \o XHeightRule(vertical_metrics)
        \o AscDescRule(vertical_metrics)
        \o ContrastRule(contrast_info))

\* the personality dict after every rule has been applied, before clamping
RawTraits(font_info) ==
  LET vertical_metrics == GetOrEmpty(font_info, "vertical_metrics")
      contrast_info == GetOrEmpty(font_info, "contrast")
  IN  AddDeltas(ZeroTraits,
           StyleRule(font_info.style)
        \o WeightRule(font_info.weight.weight_by_stroke)
        \o WidthRule(font_info.width.description)
        \o ShapeRule(font_info.shape.type)
        \o SpacingRule(font_info.spacing.spacing_type)
        \o XHeightRule(vertical_metrics)
        \o AscDescRule(vertical_metrics)
        \o ContrastRule(contrast_info))

PersonalityBody(font_info, seed) ==
  IF ~HasRequiredKeys(font_info) THEN Raise("KeyError")
  ELSE LET personality == NormalizeTraits(RawTraits(font_info))
       IN  [traits                |-> personality,
            emotional_description |-> generate_emotional_description(personality),
            dominant_traits       |-> DominantTraits(personality),
            suitable_use_cases    |->
              determine_suitable_use_cases(font_info, personality, seed)]

ErrorProfile ==
  [traits                |-> <<>>,
   emotional_description |-> <<"Could not analyze personality">>,
   dominant_traits       |-> <<>>,
   suitable_use_cases    |-> [suitable_for |-> <<>>, less_suitable_for |-> <<>>]]

analyze_font_personality(font_info, seed) ==
  Except(PersonalityBody(font_info, seed), LAMBDA e : ErrorProfile)

---------------------------------------------------------------------------
(* The scoring engine on its own: font_info dicts handed to                *)
(* analyze_font_personality                                                *)

\* how many of the keys of a font_info may be missing
MaxMissingKeys == 1

InfoStyles == {"serif", "sans-serif", "script", "decorative", "monospace", "unknown"}

\* (OS/2 weight class, description, label measured from the strokes)
InfoWeights ==
  { [class |-> w[1], description |-> w[2], weight_by_stroke |-> w[3]] :
      w \in { <<300, "Light", "light">>,
              <<400, "Regular", "regular">>, <<400, "Regular", "unknown">>,
              <<700, "Bold", "regular">>, <<700, "Bold", "medium">>,
              <<700, "Bold", "bold">>, <<700, "Bold", "extra bold">> } }

InfoWidths ==
  { [class |-> 3, description |-> "Condensed"],
    [class |-> 5, description |-> "Normal"],
    [class |-> 7, description |-> "Expanded"] }

InfoShapes ==
  { [type |-> t] : t \in {"very curvy", "slightly curvy", "angular"} }
  \cup { [type |-> "unknown", reason |-> "No cmap table found"] }

InfoSpacings ==
  { [width_type |-> "medium", spacing_type |-> t] : t \in {"tight", "medium", "loose"} }

\* a dict with the keys of ks only
Restrict(d, ks) == [k \in DOMAIN d \cap ks |-> d[k]]

InfoVerticalMetrics ==
  { [x_height_class |-> x, ascender_ratio |-> r[1], descender_ratio |-> r[2]] :
      x \in {"small", "large"},
      r \in { <<Rat(8, 10), Rat(2, 10)>>, <<Rat(6, 10), Rat(4, 10)>>,
              <<Rat(4, 3), Rat(1, 3)>> } }
  \cup { [x_height_class |-> "medium", ascender_ratio |-> Rat(7, 10),
          descender_ratio |-> Rat(3, 10)],
         [ascender_ratio |-> Rat(4, 3), descender_ratio |-> Rat(1, 3)],
         [error |-> "Missing required tables for vertical metrics analysis"] }

InfoContrasts ==
  { [contrast_type |-> t] :
      t \in {"monoline", "high contrast"} }
  \cup { [contrast_type |-> "unknown", reason |-> "No glyf table"] }

FullInfos ==
  { [style |-> s, weight |-> w, width |-> wd, shape |-> sh, spacing |-> sp,
     vertical_metrics |-> vm, contrast |-> ct] :
      s \in InfoStyles, w \in InfoWeights, wd \in InfoWidths, sh \in InfoShapes,
      sp \in InfoSpacings, vm \in InfoVerticalMetrics, ct \in InfoContrasts }

InfoKeys ==
  {"style", "weight", "width", "shape", "spacing", "vertical_metrics", "contrast"}

\* a serif font_info from which keys are taken away
BaseInfo ==
  [style |-> "serif",
   weight |-> [class |-> 400, description |-> "Regular", weight_by_stroke |-> "regular"],
   width |-> [class |-> 5, description |-> "Normal"],
   shape |-> [type |-> "angular"],
   spacing |-> [width_type |-> "medium", spacing_type |-> "loose"],
   vertical_metrics |-> [x_height_class |-> "small"],
   contrast |-> [contrast_type |-> "high contrast"]]

PartialInfos ==
  { Restrict(BaseInfo, InfoKeys \ missing) :
      missing \in { m \in SUBSET InfoKeys : 1 <= Cardinality(m)
                                            /\ Cardinality(m) <= MaxMissingKeys } }

\* every record is present and labelled 'unknown' (or holds only an error)
AllUnknownInfo ==
  [style |-> "unknown",
   weight |-> [class |-> 400, description |-> "Regular", weight_by_stroke |-> "unknown"],
   width |-> [class |-> 0, description |-> "unknown"],
   shape |-> [type |-> "unknown", reason |-> "No cmap table found"],
   spacing |-> [width_type |-> "unknown", spacing_type |-> "unknown"],
   vertical_metrics |-> [error |-> "Missing required tables for vertical metrics analysis"],
   contrast |-> [contrast_type |-> "unknown", reason |-> "No glyf table"]]

FontInfos == FullInfos \cup PartialInfos \cup {AllUnknownInfo}

\* no font is loaded when the engine is called on a font_info directly
NoFont == [loaded |-> FALSE]

NoInfo == <<>>

NoResult == [pending |-> TRUE]

InitPersonality ==
  /\ ttfont = NoFont
  /\ info \in FontInfos
  /\ pc = "start"
  /\ op = "none"
  /\ out = NoResult

AnalyzeFontPersonality ==
  /\ pc = "start"
  /\ info # NoInfo
  /\ \E seed \in HashSeeds : out' = analyze_font_personality(info, seed)
  /\ pc' = "done"
  /\ op' = "analyze_font_personality"
  /\ UNCHANGED <<ttfont, info>>

NextPersonality == AnalyzeFontPersonality

SpecPersonality == InitPersonality /\ [][NextPersonality]_vars

---------------------------------------------------------------------------
(* Properties of the scoring engine                                        *)

PersonalityDone == pc = "done" /\ op = "analyze_font_personality"

\* C1: every trait value of the profile returned by analyze_font_personality
\* lies in the closed range [-2, 2], whatever the feature records are.
C1_TraitsClamped ==
  PersonalityDone =>
    \A t \in DOMAIN out.traits : -H(2) <= out.traits[t] /\ out.traits[t] <= H(2)

\* C1 witness: the additive rules summed past the range in two traits
\* (elegance and strength above 2) and the profile holds the bound 2.
C1_Witness ==
  /\ PersonalityDone
  /\ HasRequiredKeys(info)
  /\ RawTraits(info)["elegance"] > H(2)
  /\ out.traits["elegance"] = H(2)
  /\ RawTraits(info)["strength"] > H(2)
  /\ out.traits["strength"] = H(2)

LongFormUseCases == {"Long-form reading", "Book typography", "News publications"}

CasualUseCases == {"Casual social media posts", "Children's content"}

\* a font_info of the scenario: weight class 700, width class 3, serif,
\* high contrast
C9_Scenario ==
  /\ PersonalityDone
  /\ HasRequiredKeys(info)
  /\ info.weight.class = 700
  /\ info.width.class = 3
  /\ info.width.description = "Condensed"
  /\ info.style = "serif"
  /\ Has(info, "contrast")
  /\ Has(info.contrast, "contrast_type")
  /\ info.contrast.contrast_type = "high contrast"

\* C9 as stated: in the scenario formality >= 1, elegance >= 1, a long-form
\* use case is recommended and a casual/children's use case is discouraged.
C9_Original ==
  C9_Scenario =>
    /\ out.traits["formality"] >= H(1)
    /\ out.traits["elegance"] >= H(1)
    /\ Range(out.suitable_use_cases.suitable_for) \cap LongFormUseCases # {}
    /\ Range(out.suitable_use_cases.less_suitable_for) \cap CasualUseCases # {}

\* C9 amended: in the scenario formality >= 1 and elegance >= 1; a long-form
\* use case is recommended exactly when the weight label measured from the
\* strokes is regular or medium (the weight class 700 plays no part), and a
\* casual/children's use case is discouraged exactly when formality > 1.
C9_Amended ==
  C9_Scenario =>
    /\ out.traits["formality"] >= H(1)
    /\ out.traits["elegance"] >= H(1)
    /\ (Range(out.suitable_use_cases.suitable_for) \cap LongFormUseCases # {}
          <=> info.weight.weight_by_stroke \in {"regular", "medium"})
    /\ (Range(out.suitable_use_cases.less_suitable_for) \cap CasualUseCases # {}
          <=> out.traits["formality"] > H(1))

\* C9 witness: the scenario with a long-form recommendation and a
\* casual/children's discouragement
C9_Witness ==
  /\ C9_Scenario
  /\ LongFormUseCases \subseteq Range(out.suitable_use_cases.suitable_for)
  /\ CasualUseCases \subseteq Range(out.suitable_use_cases.less_suitable_for)

---------------------------------------------------------------------------
(* The font object (fontTools TTFont) as the analysers read it             *)
(*                                                                         *)
(* A font is a record                                                      *)
(*   tables : the tags of the tables present ('glyf' in font)              *)
(*   name   : [family |-> getName(1, 3, 1, 1033): None or <<string>>]      *)
(*   OS2    : usWeightClass, usWidthClass, panose, sFamilyClass and the    *)
(*            optional sxHeight, sCapHeight, sTypoAscender, sTypoDescender *)
(*   post   : [isFixedPitch], head : [unitsPerEm], hhea : [ascent, descent]*)
(*   hmtx   : [metrics |-> sequence of <<advance width, left bearing>>]    *)
(*   cmap   : getBestCmap(): None or <<function from characters to glyph   *)
(*            names>>                                                      *)
(*   glyf   : font['glyf'], a function from glyph names to glyphs          *)
(*   CFF    : [fontNames |-> sequence of strings]                          *)
(* The record of a table that is not in tables is never read.              *)

\* font[tag] raises KeyError when the table is absent
HasTable(f, tag) == tag \in f.tables

HasOutlineCFF(f) == HasTable(f, "CFF ") \/ HasTable(f, "CFF2")

\* font.getBestCmap() raises KeyError without a cmap table
CmapRaises(f) == ~HasTable(f, "cmap")

\* "not cmap": None or an empty dict
CmapFalsy(f) == f.cmap = None \/ DOMAIN f.cmap[1] = {}

\* [cmap.get(u) for u in chars if u in cmap], chars a sequence of characters
ProbeGlyphNames(f, chars) ==
  LET m == f.cmap[1]
      present == SelectSeq(chars, LAMBDA c : c \in DOMAIN m)
  IN  [i \in DOMAIN present |-> m[present[i]]]

---------------------------------------------------------------------------
(* Glyphs of the glyf table: [numberOfContours, coordinates, flags,        *)
(* endPtsOfContours]; an empty glyph has numberOfContours 0 and no         *)
(* coordinates attribute.  flags[i] = 1 is an on-curve point.              *)

\* a contour of on-curve points
OnCurve(points) == [coordinates |-> points, flags |-> [i \in DOMAIN points |-> 1]]

\* the glyph made of the contours cs (each [coordinates, flags])
RECURSIVE ConcatCoords(_)
ConcatCoords(cs) ==
  IF cs = <<>> THEN <<>> ELSE Head(cs).coordinates \o ConcatCoords(Tail(cs))

RECURSIVE ConcatFlags(_)
ConcatFlags(cs) ==
  IF cs = <<>> THEN <<>> ELSE Head(cs).flags \o ConcatFlags(Tail(cs))

MakeGlyph(cs) ==
  [numberOfContours |-> Len(cs),
   coordinates      |-> ConcatCoords(cs),
   flags            |-> ConcatFlags(cs),
   endPtsOfContours |->
     [i \in DOMAIN cs |-> Len(ConcatCoords(SubSeq(cs, 1, i))) - 1]]

Rect(x0, y0, x1, y1) == <<<<x0, y0>>, <<x1, y0>>, <<x1, y1>>, <<x0, y1>>>>

\* four points at distance r from the origin, on the axes
Diamond(r) == <<<<r, 0>>, <<0, r>>, <<-r, 0>>, <<0, -r>>>>

\* eight points at distance r from the origin (r a multiple of 5)
Octagon(r) ==
  <<<<r, 0>>, <<(3 * r) \div 5, (4 * r) \div 5>>, <<0, r>>,
    <<-((3 * r) \div 5), (4 * r) \div 5>>, <<-r, 0>>,
    <<-((3 * r) \div 5), -((4 * r) \div 5)>>, <<0, -r>>,
    <<(3 * r) \div 5, -((4 * r) \div 5)>>>>

\* a rectangle with one more on-curve point in the middle of its lower side
Rect5(w, h) == <<<<0, 0>>, <<w \div 2, 0>>, <<w, 0>>, <<w, h>>, <<0, h>>>>

\* Rect5 with two off-curve control points on the upper side
Rect5Curved(w, h) ==
  [coordinates |-> <<<<0, 0>>, <<w \div 2, 0>>, <<w, 0>>, <<w, h>>,
                     <<(2 * w) \div 3, h + 20>>, <<w \div 3, h + 20>>, <<0, h>>>>,
   flags       |-> <<1, 1, 1, 1, 0, 0, 1>>]

\* a square wave of k teeth: 4k on-curve points, neighbouring stems s apart
RECURSIVE Comb(_, _, _)
Comb(k, s, h) ==
  IF k = 0 THEN <<>>
  ELSE Comb(k - 1, s, h)
       \o <<<<(2 * k - 2) * s, 0>>, <<(2 * k - 2) * s, h>>,
            <<(2 * k - 1) * s, h>>, <<(2 * k - 1) * s, 0>>>>

\* two on-curve points and four off-curve points per on-curve point pair
Blob ==
  [coordinates |-> <<<<0, 0>>, <<100, -100>>, <<300, -100>>, <<400, 0>>,
                     <<500, 200>>, <<500, 300>>, <<400, 500>>, <<300, 600>>,
                     <<100, 600>>, <<0, 500>>, <<-100, 300>>, <<-100, 200>>>>,
   flags       |-> <<1, 0, 0, 1, 0, 0, 1, 0, 0, 1, 0, 0>>]

GlyphNames ==
  {"empty", "stem", "widestem", "bar", "ring", "ringInnerFirst", "ring8", "box", "rect5",
   "rect5c", "blob", "comb", "flat", "xbox"}

\* the glyph of the catalogue with the name
Glyph(name) ==
  CASE name = "empty"          -> [numberOfContours |-> 0]
    [] name = "stem"           -> MakeGlyph(<<OnCurve(Rect(0, 0, 100, 700))>>)
    [] name = "widestem"       -> MakeGlyph(<<OnCurve(Rect(0, 0, 200, 700))>>)
    [] name = "bar"            -> MakeGlyph(<<OnCurve(Rect(0, 0, 600, 100))>>)
    [] name = "ring"           -> MakeGlyph(<<OnCurve(Diamond(500)), OnCurve(Diamond(380))>>)
    [] name = "ringInnerFirst" -> MakeGlyph(<<OnCurve(Diamond(380)), OnCurve(Diamond(500))>>)
    [] name = "ring8"          -> MakeGlyph(<<OnCurve(Diamond(380)), OnCurve(Octagon(500))>>)
    [] name = "box"            -> MakeGlyph(<<OnCurve(Rect(0, 0, 300, 400))>>)
    [] name = "rect5"          -> MakeGlyph(<<OnCurve(Rect5(600, 500))>>)
    [] name = "rect5c"         -> MakeGlyph(<<Rect5Curved(600, 500)>>)
    [] name = "blob"           -> MakeGlyph(<<Blob>>)
    [] name = "comb"           -> MakeGlyph(<<OnCurve(Comb(6, 60, 700))>>)
    [] name = "flat"           -> MakeGlyph(<<OnCurve(<<<<0, 0>>, <<300, 0>>, <<600, 0>>>>)>>)
    [] name = "xbox"           -> MakeGlyph(<<OnCurve(Rect(0, 0, 400, 500))>>)

HasCoordinates(g) == Has(g, "coordinates") /\ Len(g.coordinates) > 0

XCoords(g) == [i \in DOMAIN g.coordinates |-> g.coordinates[i][1]]

YCoords(g) == [i \in DOMAIN g.coordinates |-> g.coordinates[i][2]]

\* bounding box of the points: x_max - x_min and y_max - y_min
BoxWidth(g) == SeqMax(XCoords(g)) - SeqMin(XCoords(g))

BoxHeight(g) == SeqMax(YCoords(g)) - SeqMin(YCoords(g))

\* [i for i, flag in enumerate(flags) if flag & 1], as 1-based indices
OnCurveIndices(g) == SelectSeq([i \in DOMAIN g.flags |-> i], LAMBDA i : g.flags[i] = 1)

\* the glyphs a loop of an analyser measures: named, in the glyf table and
\* with at least one contour
Measurable(f, glyph_names) ==
  SelectSeq(glyph_names,
            LAMBDA n : n \in DOMAIN f.glyf /\ f.glyf[n].numberOfContours > 0)

---------------------------------------------------------------------------
(* Style classifier                                                        *)

NumPoints(g) == IF Has(g, "coordinates") THEN Len(g.coordinates) ELSE 0

has_serif_features(g) ==
  IF g.numberOfContours > 1 /\ HasCoordinates(g)
    THEN IF NumPoints(g) > 20 THEN 2
         ELSE IF NumPoints(g) > 12 THEN 1
         ELSE 0
    ELSE 0

is_asymmetric(g) ==
  IF HasCoordinates(g)
    THEN LET xs == XCoords(g)
             lo == SeqMin(xs)
             hi == SeqMax(xs)
             \* x < mid_x with mid_x = (min_x + max_x) / 2
             left_points  == Len(SelectSeq(xs, LAMBDA x : 2 * x < lo + hi))
             right_points == Len(SelectSeq(xs, LAMBDA x : 2 * x > lo + hi))
         IN  \/ 2 * left_points > 3 * right_points
             \/ 2 * right_points > 3 * left_points
    ELSE FALSE

has_script_features(g) ==
  IF HasCoordinates(g)
    THEN IF g.numberOfContours = 1 /\ NumPoints(g) > 20 THEN 2
         ELSE IF is_asymmetric(g) /\ g.numberOfContours <= 2 THEN 1
         ELSE 0
    ELSE 0

has_decorative_features(g) ==
  IF g.numberOfContours > 3 /\ HasCoordinates(g)
    THEN IF NumPoints(g) > 30 THEN 2
         ELSE IF NumPoints(g) > 20 THEN 1
         ELSE 0
    ELSE 0

\* any(term in name for term in terms)
ContainsAny(s, terms) == \E t \in terms : Contains(s, t)

ScriptTerms == {"script", "handwriting", "cursive", "brush", "pacifico", "dancing"}

DecorativeTerms == {"deco", "display", "ornament", "fancy", "elite", "special"}

\* mutant: the decorative terms are tested before the script terms
StyleFromFamilyName_DecorativeFirst(family_name) ==
  IF Contains(family_name, "roboto")
     \/ (Contains(family_name, "sans") /\ ~Contains(family_name, "serif"))
    THEN <<"sans-serif">>
  ELSE IF Contains(family_name, "serif") /\ ~Contains(family_name, "sans")
    THEN <<"serif">>
  ELSE IF ContainsAny(family_name, DecorativeTerms) THEN <<"decorative">>
  ELSE IF ContainsAny(family_name, ScriptTerms) THEN <<"script">>
  ELSE None

\* lines 25-32: the label the family name gives, or None
StyleFromFamilyName(family_name) ==
  IF Contains(family_name, "roboto")
     \/ (Contains(family_name, "sans") /\ ~Contains(family_name, "serif"))
    THEN <<"sans-serif">>
  ELSE IF Contains(family_name, "serif") /\ ~Contains(family_name, "sans")
    THEN <<"serif">>
  ELSE IF ContainsAny(family_name, ScriptTerms) THEN <<"script">>
  ELSE IF ContainsAny(family_name, DecorativeTerms) THEN <<"decorative">>
  ELSE None

\* lines 35-46: the label the PANOSE classification gives, or None
StyleFromPanose(panose) ==
  IF panose.bFamilyType = 2
    THEN IF panose.bSerifStyle = 11 \/ panose.bSerifStyle = 0 THEN <<"sans-serif">>
         ELSE IF panose.bSerifStyle > 1 /\ panose.bSerifStyle < 15 THEN <<"serif">>
         ELSE None
  ELSE IF panose.bFamilyType = 3 THEN <<"script">>
  ELSE IF panose.bFamilyType = 4 THEN <<"decorative">>
  ELSE None

\* sum of a per-glyph score over the glyphs measured
RECURSIVE ScoreSum(_, _, _)
ScoreSum(f, names, kind) ==
  IF names = <<>> THEN 0
  ELSE (CASE kind = "serif"      -> has_serif_features(f.glyf[Head(names)])
          [] kind = "script"     -> has_script_features(f.glyf[Head(names)])
          [] kind = "decorative" -> has_decorative_features(f.glyf[Head(names)]))
       + ScoreSum(f, Tail(names), kind)

\* lines 93-101
StyleFromScores(serif_score, script_score, decorative_score) ==
  IF script_score >= 3 /\ script_score > serif_score /\ script_score > decorative_score
    THEN "script"
  ELSE IF decorative_score >= 3 /\ decorative_score > serif_score THEN "decorative"
  ELSE IF serif_score >= 2 /\ serif_score > script_score THEN "serif"
  ELSE "sans-serif"

\* lines 113-120: the label the CFF font name gives, or None
StyleFromCFFName(cff_font_name) ==
  IF Contains(cff_font_name, "serif") /\ ~Contains(cff_font_name, "sans")
    THEN <<"serif">>
  ELSE IF Contains(cff_font_name, "sans") THEN <<"sans-serif">>
  ELSE IF ContainsAny(cff_font_name, {"script", "brush", "hand"}) THEN <<"script">>
  ELSE IF ContainsAny(cff_font_name, {"deco", "display", "ornament"}) THEN <<"decorative">>
  ELSE None

\* lines 127-142: the label of the IBM family class, or None
StyleFromFamilyClass(family_class) ==
  LET class_id == family_class \div 256
  IN  IF class_id \in {1, 2, 3, 4, 5} THEN <<"serif">>
      ELSE IF class_id = 8 THEN <<"sans-serif">>
      ELSE IF class_id = 9 THEN <<"decorative">>
      ELSE IF class_id = 10 THEN <<"script">>
      ELSE None

StyleKeyChars == <<"I", "a", "o", "g", "e">>

\* lines 52-148; the label returned is wrapped as [ret |-> label]
StyleFromGlyphs(f) ==
  IF CmapRaises(f) THEN Raise("KeyError: 'cmap'")
  ELSE IF CmapFalsy(f) THEN Ret("unknown")
  ELSE LET glyph_names == ProbeGlyphNames(f, StyleKeyChars)
       IN  IF glyph_names = <<>> THEN Ret("unknown")
           ELSE IF HasTable(f, "glyf")
             THEN LET measured == Measurable(f, glyph_names)
                  IN  Ret(StyleFromScores(ScoreSum(f, measured, "serif"),
                                          ScoreSum(f, measured, "script"),
                                          ScoreSum(f, measured, "decorative")))
           ELSE IF HasOutlineCFF(f)
             THEN LET byName == IF f.CFF.fontNames # <<>>
                                  THEN StyleFromCFFName(f.CFF.fontNames[1])
                                  ELSE None
                      byClass == IF HasTable(f, "OS/2") /\ Has(f.OS2, "sFamilyClass")
                                   THEN StyleFromFamilyClass(f.OS2.sFamilyClass)
                                   ELSE None
                  IN  IF byName # None THEN Ret(byName[1])
                      ELSE IF byClass # None THEN Ret(byClass[1])
                      ELSE Ret("sans-serif")
           ELSE Ret("sans-serif")

\* mutant: the fixed-pitch flag is looked at before the family name and PANOSE
StyleBody_FixedPitchFirst(f) ==
  IF ~HasTable(f, "name") THEN Raise("KeyError: 'name'")
  ELSE IF HasTable(f, "post") /\ f.post.isFixedPitch # 0 THEN Ret("monospace")
  ELSE LET byName == IF f.name.family # None
                       THEN StyleFromFamilyName(f.name.family[1]) ELSE None
           byPanose == IF HasTable(f, "OS/2") /\ Has(f.OS2, "panose")
                         THEN StyleFromPanose(f.OS2.panose) ELSE None
       IN  IF byName # None THEN Ret(byName[1])
           ELSE IF byPanose # None THEN Ret(byPanose[1])
           ELSE IF ~HasTable(f, "post") THEN Raise("KeyError: 'post'")
           ELSE StyleFromGlyphs(f)

\* the try block of determine_font_style
StyleBody(f) ==
  IF ~HasTable(f, "name") THEN Raise("KeyError: 'name'")
  ELSE LET byName == IF f.name.family # None
                       THEN StyleFromFamilyName(f.name.family[1]) ELSE None
           byPanose == IF HasTable(f, "OS/2") /\ Has(f.OS2, "panose")
                         THEN StyleFromPanose(f.OS2.panose) ELSE None
       IN  IF byName # None THEN Ret(byName[1])
           ELSE IF byPanose # None THEN Ret(byPanose[1])
           ELSE IF ~HasTable(f, "post") THEN Raise("KeyError: 'post'")
           ELSE IF Has(f.post, "isFixedPitch") /\ f.post.isFixedPitch # 0
             THEN Ret("monospace")
           ELSE StyleFromGlyphs(f)

\* the except clause returns "unknown"
StyleError(e) == Ret("unknown")

determine_font_style(f) == Except(StyleBody(f), StyleError).ret

---------------------------------------------------------------------------
(* Stroke width estimator                                                  *)

RECURSIVE SqrtBetween(_, _, _)
SqrtBetween(n, lo, hi) ==
  IF lo >= hi THEN lo
  ELSE LET mid == (lo + hi + 1) \div 2
       IN  IF mid * mid <= n THEN SqrtBetween(n, mid, hi)
           ELSE SqrtBetween(n, lo, mid - 1)

\* n ** 0.5 for a perfect square n; the glyphs of the model only ever take
\* the root of a perfect square
Sqrt(n) == LET r == SqrtBetween(n, 0, Min2(n, 46340)) IN CASE r * r = n -> r

\* mutant: the upper bounds of the bands are inclusive
classify_weight_by_normalized_stroke_Inclusive(n) ==
  IF ~RGt(n, Rat(5, 100)) THEN "thin"
  ELSE IF ~RGt(n, Rat(7, 100)) THEN "light"
  ELSE IF ~RGt(n, Rat(9, 100)) THEN "regular"
  ELSE IF ~RGt(n, Rat(12, 100)) THEN "medium"
  ELSE IF ~RGt(n, Rat(15, 100)) THEN "bold"
  ELSE IF ~RGt(n, Rat(18, 100)) THEN "extra bold"
  ELSE "black"

classify_weight_by_normalized_stroke(n) ==
  IF RLt(n, Rat(5, 100)) THEN "thin"
  ELSE IF RLt(n, Rat(7, 100)) THEN "light"
  ELSE IF RLt(n, Rat(9, 100)) THEN "regular"
  ELSE IF RLt(n, Rat(12, 100)) THEN "medium"
  ELSE IF RLt(n, Rat(15, 100)) THEN "bold"
  ELSE IF RLt(n, Rat(18, 100)) THEN "extra bold"
  ELSE "black"

\* mutant: the upper limit of a band belongs to the next band
classify_weight_by_value_Exclusive(weight_value) ==
  IF weight_value < 150 THEN "thin"
  ELSE IF weight_value < 250 THEN "extra light"
  ELSE IF weight_value < 350 THEN "light"
  ELSE IF weight_value < 450 THEN "regular"
  ELSE IF weight_value < 550 THEN "medium"
  ELSE IF weight_value < 650 THEN "semi bold"
  ELSE IF weight_value < 750 THEN "bold"
  ELSE IF weight_value < 850 THEN "extra bold"
  ELSE "black"

\* mutant: the labels of the light and the heavy half are exchanged
classify_weight_by_value_Inverted(weight_value) ==
  IF weight_value <= 450 THEN "extra bold" ELSE "light"

classify_weight_by_value(weight_value) ==
  IF weight_value <= 150 THEN "thin"
  ELSE IF weight_value <= 250 THEN "extra light"
  ELSE IF weight_value <= 350 THEN "light"
  ELSE IF weight_value <= 450 THEN "regular"
  ELSE IF weight_value <= 550 THEN "medium"
  ELSE IF weight_value <= 650 THEN "semi bold"
  ELSE IF weight_value <= 750 THEN "bold"
  ELSE IF weight_value <= 850 THEN "extra bold"
  ELSE "black"

\* mutant: the number of contours is not looked at for the two stroke types
identify_glyph_type_AnyContours(g, width, height) ==
  IF 10 * width < 4 * height THEN "vertical_stroke"
  ELSE IF 10 * height < 4 * width THEN "horizontal_stroke"
  ELSE IF /\ height > 0
          /\ 8 * height < 10 * width
          /\ 10 * width < 12 * height
          /\ g.numberOfContours = 2
    THEN "circular"
  ELSE "complex"

\* width < height * 0.4 is 10 * width < 4 * height, and so on
identify_glyph_type(g, width, height) ==
  IF 10 * width < 4 * height /\ g.numberOfContours = 1 THEN "vertical_stroke"
  ELSE IF 10 * height < 4 * width /\ g.numberOfContours = 1 THEN "horizontal_stroke"
  ELSE IF /\ height > 0
          /\ 8 * height < 10 * width
          /\ 10 * width < 12 * height
          /\ g.numberOfContours = 2
    THEN "circular"
  ELSE "complex"

measure_vertical_stroke_width(g, width, height) ==
  IF height > width * 5 THEN RInt(width) ELSE Rat(85 * width, 100)

measure_horizontal_stroke_width(g, width, height) == Rat(85 * height, 100)

\* the mean distance of the points pts from their mean point: with n points
\* of coordinate sums sx and sy it is
\* sum(sqrt((n*x - sx)^2 + (n*y - sy)^2)) / n^2
MeanRadius(pts) ==
  LET n  == Len(pts)
      sx == SumSeq([i \in DOMAIN pts |-> pts[i][1]])
      sy == SumSeq([i \in DOMAIN pts |-> pts[i][2]])
      dist(p) == Sqrt((n * p[1] - sx) * (n * p[1] - sx)
                      + (n * p[2] - sy) * (n * p[2] - sy))
  IN  Rat(SumSeq([i \in DOMAIN pts |-> dist(pts[i])]), n * n)

\* the contour with at least as many points as the other is the outer one;
\* indices are those of the code plus one
measure_circular_glyph_stroke_width(g, coordinates, flags) ==
  IF ~Has(g, "endPtsOfContours") THEN None
  ELSE LET end_points == g.endPtsOfContours
       IN  IF Len(end_points) < 2 THEN None
           ELSE LET contour1_points == end_points[1] + 1
                    contour2_points == end_points[2] - end_points[1]
                    first  == SubSeq(coordinates, 1, end_points[1] + 1)
                    second == SubSeq(coordinates, end_points[1] + 2, end_points[2] + 1)
                    outer  == IF contour1_points >= contour2_points THEN first ELSE second
                    inner  == IF contour1_points >= contour2_points THEN second ELSE first
                IN  IF outer = <<>> \/ inner = <<>> THEN None
                    ELSE RSub(MeanRadius(outer), MeanRadius(inner))

measure_area_perimeter_stroke_width(g, w, h) ==
  IF (w = None \/ h = None) /\ ~HasCoordinates(g) THEN None
  ELSE LET width  == IF w = None \/ h = None THEN BoxWidth(g) ELSE w[1]
           height == IF w = None \/ h = None THEN BoxHeight(g) ELSE h[1]
           area == width * height
           perimeter == 2 * (width + height)
           \* aspect_ratio > 2 or aspect_ratio < 0.5, aspect_ratio 1 if height is 0
           extreme == IF height > 0
                        THEN width > 2 * height \/ 2 * width < height
                        ELSE FALSE
           correction == IF extreme
                           THEN (IF g.numberOfContours > 1 THEN Rat(4, 10) ELSE Rat(2, 10))
                           ELSE (IF g.numberOfContours > 1 THEN Rat(6, 10) ELSE Rat(3, 10))
       IN  IF perimeter > 0 THEN RMul(Rat(2 * area, perimeter), correction)
           ELSE None

SampleSize == 20

SqDist(p, q) == (p[1] - q[1]) * (p[1] - q[1]) + (p[2] - q[2]) * (p[2] - q[2])

\* x placed before the first element of the ascending list s that exceeds it
RECURSIVE InsertAsc(_, _)
InsertAsc(s, x) ==
  IF s = <<>> THEN <<x>>
  ELSE IF Head(s) <= x THEN <<Head(s)>> \o InsertAsc(Tail(s), x)
  ELSE <<x>> \o s

RECURSIVE SortAsc(_)
SortAsc(s) ==
  IF s = <<>> THEN <<>> ELSE InsertAsc(SortAsc(Tail(s)), Head(s))

\* mutant: every on-curve point is sampled
measure_complex_glyph_stroke_width_NoCap(g, coordinates, flags) ==
  LET on_curve_indices == OnCurveIndices(g)
  IN  IF Len(on_curve_indices) < 4
        THEN measure_area_perimeter_stroke_width(g, None, None)
      ELSE LET sampled == on_curve_indices
               others(i) == {j \in DOMAIN sampled : Abs(i - j) >= 2}
               min_sq(i) ==
                 LET ds == {SqDist(coordinates[sampled[i]], coordinates[sampled[j]]) :
                              j \in others(i)}
                 IN  CHOOSE d \in ds : \A e \in ds : d <= e
               stroke_widths == SortAsc([k \in DOMAIN sampled |-> min_sq(k)])
           IN  RInt(Sqrt(stroke_widths[(Len(stroke_widths) \div 4) + 1]))

\* Distances are kept squared while they are compared and sorted; the root
\* is taken of the one returned.
measure_complex_glyph_stroke_width(g, coordinates, flags) ==
  LET on_curve_indices == OnCurveIndices(g)
  IN  IF Len(on_curve_indices) < 4
        THEN measure_area_perimeter_stroke_width(g, None, None)
      ELSE LET sampled == Take(on_curve_indices, SampleSize)
               others(i) == {j \in DOMAIN sampled : Abs(i - j) >= 2}
               min_sq(i) ==
                 LET ds == {SqDist(coordinates[sampled[i]], coordinates[sampled[j]]) :
                              j \in others(i)}
                 IN  CHOOSE d \in ds : \A e \in ds : d <= e
               with_min == SelectSeq([i \in DOMAIN sampled |-> i],
                                     LAMBDA i : others(i) # {})
               stroke_widths == SortAsc([k \in DOMAIN with_min |-> min_sq(with_min[k])])
           IN  IF stroke_widths # <<>>
                 THEN IF Len(stroke_widths) >= 3
                        THEN RInt(Sqrt(stroke_widths[(Len(stroke_widths) \div 4) + 1]))
                        ELSE RInt(Sqrt(stroke_widths[1]))
                 ELSE measure_area_perimeter_stroke_width(g, None, None)

\* None, or the stroke width as a rational
measure_glyph_stroke_width(g) ==
  IF ~HasCoordinates(g) THEN None
  ELSE LET width  == BoxWidth(g)
           height == BoxHeight(g)
       IN  IF width <= 0 \/ height <= 0 THEN None
           ELSE IF ~Has(g, "flags") THEN None
           ELSE IF Len(g.coordinates) # Len(g.flags) THEN None
           ELSE LET glyph_type == identify_glyph_type(g, width, height)
                IN  IF glyph_type = "vertical_stroke"
                      THEN measure_vertical_stroke_width(g, width, height)
                    ELSE IF glyph_type = "horizontal_stroke"
                      THEN measure_horizontal_stroke_width(g, width, height)
                    ELSE IF glyph_type = "circular" /\ g.numberOfContours = 2
                      THEN measure_circular_glyph_stroke_width(g, g.coordinates, g.flags)
                    ELSE IF glyph_type = "complex"
                      THEN measure_complex_glyph_stroke_width(g, g.coordinates, g.flags)
                    ELSE measure_area_perimeter_stroke_width(g, <<width>>, <<height>>)

StrokeSampleChars == <<"H", "I", "O", "n", "o", "l">>

\* mutant: the reason is left empty
UnknownStroke_NoReason(reason) ==
  [stroke_width |-> None, normalized_stroke_width |-> None,
   weight_by_stroke |-> "unknown", reason |-> ""]

UnknownStroke(reason) ==
  [stroke_width |-> None, normalized_stroke_width |-> None,
   weight_by_stroke |-> "unknown", reason |-> reason]

\* mutant: measurements that are not positive are averaged as well
StrokeWidths_KeepNonPositive(f, glyph_names) ==
  LET measured == Measurable(f, glyph_names)
      widths == [i \in DOMAIN measured |-> measure_glyph_stroke_width(f.glyf[measured[i]])]
  IN  SelectSeq(widths, LAMBDA w : w # None)

\* the measurements of the glyphs that are > 0, in order
StrokeWidths(f, glyph_names) ==
  LET measured == Measurable(f, glyph_names)
      widths == [i \in DOMAIN measured |-> measure_glyph_stroke_width(f.glyf[measured[i]])]
  IN  SelectSeq(widths, LAMBDA w : w # None /\ w[1] > 0)

\* lines 353-363: the record of an average stroke width
StrokeRecord(average_stroke_width, units_per_em) ==
  LET normalized_stroke_width == RDiv(average_stroke_width, RInt(units_per_em))
  IN  [stroke_width |-> average_stroke_width,
       normalized_stroke_width |-> normalized_stroke_width,
       weight_by_stroke |->
         classify_weight_by_normalized_stroke(normalized_stroke_width)]

\* lines 341-363: the record of the stroke widths measured
MeasuredStroke(stroke_widths, units_per_em) ==
  IF stroke_widths = <<>> THEN UnknownStroke("Could not measure stroke widths")
  ELSE IF units_per_em = 0 THEN Raise("float division by zero")
  ELSE StrokeRecord(RDiv(RSum(stroke_widths), RInt(Len(stroke_widths))), units_per_em)

\* the try block of calculate_stroke_width
StrokeBody(f) ==
  IF ~HasTable(f, "head") THEN Raise("'head'")
  ELSE IF CmapRaises(f) THEN Raise("'cmap'")
  ELSE IF CmapFalsy(f) THEN UnknownStroke("No cmap table found")
  ELSE LET units_per_em == f.head.unitsPerEm
           glyph_names == ProbeGlyphNames(f, StrokeSampleChars)
       IN  IF glyph_names = <<>> THEN UnknownStroke("No sample glyphs found")
           ELSE IF HasTable(f, "glyf")
             THEN MeasuredStroke(StrokeWidths(f, glyph_names), units_per_em)
           ELSE IF HasOutlineCFF(f)
             THEN IF ~HasTable(f, "OS/2") THEN Raise("'OS/2'")
                  ELSE LET weight_class == f.OS2.usWeightClass
                           estimated_normalized_width == Rat(weight_class, 9000)
                       IN  [stroke_width |->
                              RMul(estimated_normalized_width, RInt(units_per_em)),
                            normalized_stroke_width |-> estimated_normalized_width,
                            weight_by_stroke |-> classify_weight_by_value(weight_class),
                            is_estimated |-> TRUE,
                            estimation_method |-> "OS/2 weight class"]
           ELSE UnknownStroke("Unsupported outline format")

\* the except clause: reason is str(e)
StrokeError(e) ==
  [stroke_width |-> None, normalized_stroke_width |-> None,
   weight_by_stroke |-> "error", reason |-> e.exc]

calculate_stroke_width(f) == Except(StrokeBody(f), StrokeError)

---------------------------------------------------------------------------
(* Aspect/width classifier                                                 *)

\* None, or width / height
measure_glyph_aspect_ratio(g) ==
  IF ~HasCoordinates(g) THEN None
  ELSE IF BoxHeight(g) <= 0 THEN None
  ELSE Rat(BoxWidth(g), BoxHeight(g))

AspectSampleChars == <<"m", "w", "o", "H", "O">>

UnknownAspect(reason) ==
  [aspect_ratio |-> None, width_by_aspect |-> "unknown", reason |-> reason]

AspectRatios(f, glyph_names) ==
  LET measured == Measurable(f, glyph_names)
      ratios == [i \in DOMAIN measured |-> measure_glyph_aspect_ratio(f.glyf[measured[i]])]
  IN  SelectSeq(ratios, LAMBDA r : r # None /\ r[1] > 0)

\* the try block of classify_font_width_by_aspect_ratio
AspectBody(f) ==
  IF ~HasTable(f, "glyf") THEN UnknownAspect("No glyf table (possibly CFF/OTF)")
  ELSE IF CmapRaises(f) THEN Raise("'cmap'")
  ELSE IF CmapFalsy(f) THEN UnknownAspect("No cmap table found")
  ELSE LET glyph_names == ProbeGlyphNames(f, AspectSampleChars)
       IN  IF glyph_names = <<>> THEN UnknownAspect("No sample glyphs found")
           ELSE LET aspect_ratios == AspectRatios(f, glyph_names)
                IN  IF aspect_ratios = <<>>
                      THEN UnknownAspect("Could not measure aspect ratios")
                    ELSE LET average_aspect_ratio ==
                               RDiv(RSum(aspect_ratios), RInt(Len(aspect_ratios)))
                         IN  [aspect_ratio |-> average_aspect_ratio,
                              width_by_aspect |->
                                IF RLt(average_aspect_ratio, Rat(7, 10)) THEN "condensed"
                                ELSE IF RLt(average_aspect_ratio, RInt(1)) THEN "normal"
                                ELSE "expanded"]

AspectError(e) ==
  [aspect_ratio |-> None, width_by_aspect |-> "error", reason |-> e.exc]

classify_font_width_by_aspect_ratio(f) == Except(AspectBody(f), AspectError)

---------------------------------------------------------------------------
(* Shape (curvature) classifier                                            *)

\* math.acos of the clamped cosine, in degrees, of the angle between two
\* non-zero vectors; the glyphs of the model only turn by multiples of 45
\* degrees, for which the angle is a whole number
AngleDeg(v1, v2) ==
  LET dot   == v1[1] * v2[1] + v1[2] * v2[2]
      cross == v1[1] * v2[2] - v1[2] * v2[1]
  IN  CASE cross = 0 /\ dot > 0 -> 0
        [] cross = 0 /\ dot < 0 -> 180
        [] dot = 0 /\ cross # 0 -> 90
        [] dot # 0 /\ dot = Abs(cross) -> 45
        [] dot # 0 /\ -dot = Abs(cross) -> 135

\* the sum of the turn angles over the on-curve points of one glyph
GlyphAngleChanges(g) ==
  LET idx == OnCurveIndices(g)
      n == Len(idx)
      turn(i) ==
        LET p1 == g.coordinates[idx[i]]
            p2 == g.coordinates[idx[(i % n) + 1]]
            p3 == g.coordinates[idx[((i + 1) % n) + 1]]
            v1 == <<p2[1] - p1[1], p2[2] - p1[2]>>
            v2 == <<p3[1] - p2[1], p3[2] - p2[2]>>
        IN  IF v1 = <<0, 0>> \/ v2 = <<0, 0>> THEN 0 ELSE AngleDeg(v1, v2)
  IN  IF n >= 3 THEN SumSeq([i \in 1..n |-> turn(i)]) ELSE 0

\* the glyphs whose points the loop counts
ShapeCounted(f, glyph_names) ==
  SelectSeq(Measurable(f, glyph_names),
            LAMBDA n : /\ Has(f.glyf[n], "coordinates") /\ Has(f.glyf[n], "flags")
                       /\ Len(f.glyf[n].coordinates) = Len(f.glyf[n].flags)
                       /\ Len(OnCurveIndices(f.glyf[n])) > 0)

\* mutant: 'slightly curvy' starts above 0.2
ShapeBandOfRatio_LowAngular(curve_segments, straight_segments) ==
  LET curve_ratio == Rat(curve_segments, straight_segments)
  IN  IF RGt(curve_ratio, Rat(15, 10)) THEN "very curvy"
      ELSE IF RGt(curve_ratio, RInt(1)) THEN "curvy"
      ELSE IF RGt(curve_ratio, Rat(6, 10)) THEN "moderately curvy"
      ELSE IF RGt(curve_ratio, Rat(2, 10)) THEN "slightly curvy"
      ELSE "angular"

\* the band of the curve ratio off/on alone (lines 1840-1849)
ShapeBandOfRatio(curve_segments, straight_segments) ==
  LET curve_ratio == Rat(curve_segments, straight_segments)
  IN  IF RGt(curve_ratio, Rat(15, 10)) THEN "very curvy"
      ELSE IF RGt(curve_ratio, RInt(1)) THEN "curvy"
      ELSE IF RGt(curve_ratio, Rat(6, 10)) THEN "moderately curvy"
      ELSE IF RGt(curve_ratio, Rat(3, 10)) THEN "slightly curvy"
      ELSE "angular"

\* one band toward angular (lines 1865-1872)
ShiftTowardAngular(shape_type) ==
  IF shape_type = "very curvy" THEN "curvy"
  ELSE IF shape_type = "curvy" THEN "moderately curvy"
  ELSE IF shape_type = "moderately curvy" THEN "slightly curvy"
  ELSE IF shape_type = "slightly curvy" THEN "angular"
  ELSE shape_type

\* mutant: the type is shifted when the average angle change reaches 60
ShapeResults_AtLeast60(curve_segments, straight_segments, total_angle_changes) ==
  LET first ==
        IF straight_segments > 0
          THEN [curve_to_straight_ratio |-> Rat(curve_segments, straight_segments),
                type |-> ShapeBandOfRatio(curve_segments, straight_segments)]
          ELSE [type |-> "unknown", reason |-> "Could not analyze contours"]
  IN  IF total_angle_changes > 0 /\ straight_segments > 0
        THEN LET avg_angle_change == Rat(total_angle_changes, straight_segments)
                 refined == IF ~RLt(avg_angle_change, RInt(60))
                              THEN ShiftTowardAngular(first.type) ELSE first.type
             IN  [curve_to_straight_ratio |-> first.curve_to_straight_ratio,
                  type |-> refined,
                  average_angle_change |-> avg_angle_change]
        ELSE first

\* lines 1831-1874, from the three totals of the loop
ShapeResults(curve_segments, straight_segments, total_angle_changes) ==
  LET first ==
        IF straight_segments > 0
          THEN [curve_to_straight_ratio |-> Rat(curve_segments, straight_segments),
                type |-> ShapeBandOfRatio(curve_segments, straight_segments)]
          ELSE [type |-> "unknown", reason |-> "Could not analyze contours"]
  IN  IF total_angle_changes > 0 /\ straight_segments > 0
        THEN LET avg_angle_change == Rat(total_angle_changes, straight_segments)
                 refined == IF RGt(avg_angle_change, RInt(60))
                              THEN ShiftTowardAngular(first.type) ELSE first.type
             IN  [curve_to_straight_ratio |-> first.curve_to_straight_ratio,
                  type |-> refined,
                  average_angle_change |-> avg_angle_change]
        ELSE first

CurvyKeywords == {"round", "soft", "curv", "script", "brush", "hand"}

AngularKeywords == {"angular", "gothic", "square", "geo", "block", "pixel"}

\* lines 1877-1917
ShapeFromMetadata(f) ==
  LET font_name == IF HasTable(f, "name") /\ f.name.family # None
                     THEN f.name.family[1] ELSE ""
      letterform == IF HasTable(f, "OS/2") /\ Has(f.OS2, "panose")
                       /\ Has(f.OS2.panose, "bLetterForm")
                      THEN f.OS2.panose.bLetterForm ELSE 0
      curvy_score == Cardinality({k \in CurvyKeywords : Contains(font_name, k)})
                     + (IF 9 <= letterform /\ letterform <= 11 THEN 2 ELSE 0)
      angular_score == Cardinality({k \in AngularKeywords : Contains(font_name, k)})
                       + (IF 2 <= letterform /\ letterform <= 5 THEN 2 ELSE 0)
  IN  [type |-> IF curvy_score > angular_score THEN "curvy"
                ELSE IF angular_score > curvy_score THEN "angular"
                ELSE "balanced",
       is_estimated |-> TRUE,
       estimation_method |-> "metadata analysis",
       curvy_score |-> curvy_score,
       angular_score |-> angular_score]

ShapeSampleChars == <<"a", "e", "o", "n", "h", "m", "v", "w", "s", "c", "z", "k">>

OffCurveCount(g) == Len(g.flags) - Len(OnCurveIndices(g))

\* the three totals after the loop over the probe glyphs (lines 1753-1829)
ShapeTotals(f, glyph_names) ==
  LET counted == ShapeCounted(f, glyph_names)
  IN  [curve_segments |->
         SumSeq([i \in DOMAIN counted |-> OffCurveCount(f.glyf[counted[i]])]),
       straight_segments |->
         SumSeq([i \in DOMAIN counted |-> Len(OnCurveIndices(f.glyf[counted[i]]))]),
       total_angle_changes |->
         SumSeq([i \in DOMAIN counted |-> GlyphAngleChanges(f.glyf[counted[i]])])]

\* the try block of analyze_glyph_shapes
ShapeBody(f) ==
  IF CmapRaises(f) THEN Raise("'cmap'")
  ELSE IF CmapFalsy(f) THEN [type |-> "unknown", reason |-> "No cmap table found"]
  ELSE LET glyph_names == ProbeGlyphNames(f, ShapeSampleChars)
       IN  IF glyph_names = <<>>
             THEN [type |-> "unknown", reason |-> "No sample glyphs found"]
           ELSE IF HasTable(f, "glyf")
             THEN LET totals == ShapeTotals(f, glyph_names)
                  IN  ShapeResults(totals.curve_segments, totals.straight_segments,
                                   totals.total_angle_changes)
           ELSE IF HasOutlineCFF(f) THEN ShapeFromMetadata(f)
           ELSE [type |-> "unknown", reason |-> "Unsupported font format"]

ShapeError(e) == [type |-> "unknown", reason |-> e.exc]

analyze_glyph_shapes(f) == Except(ShapeBody(f), ShapeError)


---------------------------------------------------------------------------
(* Spacing analyser                                                        *)

WidthTypeOf(normalized_width) ==
  IF RGt(normalized_width, Rat(7, 10)) THEN "very wide"
  ELSE IF RGt(normalized_width, Rat(6, 10)) THEN "wide"
  ELSE IF RGt(normalized_width, Rat(5, 10)) THEN "medium"
  ELSE IF RGt(normalized_width, Rat(4, 10)) THEN "narrow"
  ELSE "very narrow"

BearingTypeOf(normalized_bearing) ==
  IF RGt(normalized_bearing, Rat(1, 10)) THEN "loose"
  ELSE IF RGt(normalized_bearing, Rat(5, 100)) THEN "medium"
  ELSE "tight"

UnknownSpacing(reason) ==
  [width_type |-> "unknown", spacing_type |-> "unknown", reason |-> reason]

\* the try block of analyze_spacing; hmtx.metrics.values() is a sequence of
\* <<advance width, left side bearing>>
SpacingBody(f) ==
  IF ~HasTable(f, "hmtx") THEN UnknownSpacing("No hmtx table")
  ELSE LET metrics == f.hmtx.metrics
           advance_widths == [i \in DOMAIN metrics |-> metrics[i][1]]
           left_side_bearings == [i \in DOMAIN metrics |-> metrics[i][2]]
       IN  IF advance_widths = <<>> THEN UnknownSpacing("No metrics found")
           ELSE IF ~HasTable(f, "head") THEN Raise("'head'")
           ELSE IF f.head.unitsPerEm = 0 THEN Raise("float division by zero")
           ELSE LET avg_width == Rat(SumSeq(advance_widths), Len(advance_widths))
                    avg_bearing == Rat(SumSeq(left_side_bearings), Len(left_side_bearings))
                    normalized_width == RDiv(avg_width, RInt(f.head.unitsPerEm))
                    normalized_bearing == RDiv(avg_bearing, RInt(f.head.unitsPerEm))
                IN  [average_width |-> avg_width,
                     average_bearing |-> avg_bearing,
                     normalized_width |-> normalized_width,
                     normalized_bearing |-> normalized_bearing,
                     width_type |-> WidthTypeOf(normalized_width),
                     spacing_type |-> BearingTypeOf(normalized_bearing),
                     is_cff |-> HasOutlineCFF(f)]

SpacingError(e) ==
  [width_type |-> "error", spacing_type |-> "error", reason |-> e.exc]

analyze_spacing(f) == Except(SpacingBody(f), SpacingError)

---------------------------------------------------------------------------
(* Vertical metrics analyser                                               *)

\* None or <<height>>; every exception (no cmap table, cmap None, glyph not
\* in the glyf table) is caught and gives None
measure_glyph_height(f, char) ==
  IF CmapRaises(f) \/ f.cmap = None THEN None
  ELSE IF char \notin DOMAIN f.cmap[1] THEN None
  ELSE IF f.cmap[1][char] \notin DOMAIN f.glyf THEN None
  ELSE LET g == f.glyf[f.cmap[1][char]]
       IN  IF ~HasCoordinates(g) THEN None ELSE <<BoxHeight(g)>>

\* lines 1337-1356: the value of the OS/2 field when it is there and > 0,
\* else the measured height of the glyph of char when that is not 0; None
\* when neither gives a value
HeightMetric(f, field, char) ==
  IF Has(f.OS2, field) /\ f.OS2[field] > 0 THEN <<f.OS2[field]>>
  ELSE LET h == measure_glyph_height(f, char)
       IN  IF h # None /\ h[1] # 0 THEN h ELSE None

\* lines 1360-1366: None or <<ascender, descender>>
AscenderDescender(f) ==
  IF Has(f.OS2, "sTypoAscender") /\ Has(f.OS2, "sTypoDescender")
    THEN <<f.OS2.sTypoAscender, f.OS2.sTypoDescender>>
  ELSE IF Has(f.hhea, "ascent") /\ Has(f.hhea, "descent")
    THEN <<f.hhea.ascent, f.hhea.descent>>
  ELSE None

XHeightClassOf(x_to_cap_ratio) ==
  IF RLt(x_to_cap_ratio, Rat(65, 100)) THEN "small"
  ELSE IF RLt(x_to_cap_ratio, Rat(75, 100)) THEN "medium"
  ELSE "large"

EmptyDict == [k \in {} |-> None]

\* the try block of analyze_vertical_metrics
VerticalBody(f) ==
  IF ~({"glyf", "head", "hhea", "OS/2"} \subseteq f.tables)
    THEN [error |-> "Missing required tables for vertical metrics analysis"]
  ELSE LET units_per_em == f.head.unitsPerEm
           x == HeightMetric(f, "sxHeight", "x")
           cap == HeightMetric(f, "sCapHeight", "H")
           ad == AscenderDescender(f)
           divides == x # None \/ cap # None \/ ad # None
       IN  IF divides /\ units_per_em = 0 THEN Raise("division by zero")
           ELSE IF ad # None /\ ad[1] - ad[2] = 0 THEN Raise("division by zero")
           ELSE (IF x # None
                   THEN [x_height |-> x[1],
                         normalized_x_height |-> Rat(x[1], units_per_em)]
                   ELSE EmptyDict)
             @@ (IF cap # None
                   THEN [cap_height |-> cap[1],
                         normalized_cap_height |-> Rat(cap[1], units_per_em)]
                   ELSE EmptyDict)
             @@ (IF ad # None
                   THEN [ascender |-> ad[1],
                         descender |-> ad[2],
                         normalized_ascender |-> Rat(ad[1], units_per_em),
                         normalized_descender |-> Rat(Abs(ad[2]), units_per_em),
                         total_height |-> ad[1] - ad[2],
                         normalized_total_height |-> Rat(ad[1] - ad[2], units_per_em),
                         ascender_ratio |-> Rat(ad[1], ad[1] - ad[2]),
                         descender_ratio |-> Rat(Abs(ad[2]), ad[1] - ad[2])]
                   ELSE EmptyDict)
             @@ (IF x # None /\ cap # None /\ cap[1] > 0
                   THEN [x_to_cap_ratio |-> Rat(x[1], cap[1]),
                         x_height_class |-> XHeightClassOf(Rat(x[1], cap[1]))]
                   ELSE EmptyDict)

VerticalError(e) == [error |-> "Error analyzing vertical metrics: " \o e.exc]

analyze_vertical_metrics(f) == Except(VerticalBody(f), VerticalError)

---------------------------------------------------------------------------
(* Stroke contrast analyser                                                *)

ContrastSampleChars == <<"O", "o", "B", "b", "D", "d">>

\* max(a, b) / min(a, b) for a, b > 0
MaxOverMin(a, b) == Rat(Max2(a, b), Min2(a, b))

\* the ratios one glyph appends to contrast_ratios (none or one); the
\* bounding box xMin..yMax of a glyph with contours is that of its points
GlyphContrast(f, glyph_name) ==
  LET g == f.glyf[glyph_name]
      m == f.cmap[1]
      round_names == {m[c] : c \in {"O", "o"} \cap DOMAIN m}
      stem_names == {m[c] : c \in {"B", "D", "b", "d"} \cap DOMAIN m}
  IN  IF ~HasCoordinates(g) THEN <<>>
      ELSE LET width == BoxWidth(g)
               height == BoxHeight(g)
           IN  IF width <= 0 \/ height <= 0 THEN <<>>
               ELSE IF glyph_name \in round_names
                 \* width * 0.15 against height * 0.15
                 THEN IF g.numberOfContours >= 2
                        THEN <<MaxOverMin(15 * width, 15 * height)>> ELSE <<>>
               ELSE IF glyph_name \in stem_names
                 \* width * 0.2 against height * 0.1
                 THEN <<MaxOverMin(2 * width, height)>>
               ELSE <<>>

RECURSIVE ContrastRatios(_, _)
ContrastRatios(f, names) ==
  IF names = <<>> THEN <<>>
  ELSE GlyphContrast(f, Head(names)) \o ContrastRatios(f, Tail(names))

\* lines 1538-1566
ContrastFromStyle(style) ==
  IF style = "serif"
    THEN [contrast_ratio |-> Rat(25, 10), contrast_type |-> "medium contrast",
          estimated |-> TRUE]
  ELSE IF style = "sans-serif"
    THEN [contrast_ratio |-> Rat(12, 10), contrast_type |-> "low contrast",
          estimated |-> TRUE]
  ELSE IF style = "script"
    THEN [contrast_ratio |-> Rat(20, 10), contrast_type |-> "medium contrast",
          estimated |-> TRUE]
  ELSE [contrast_ratio |-> Rat(15, 10), contrast_type |-> "low contrast",
        estimated |-> TRUE]

\* the try block of analyze_stroke_contrast; the if/elif chain of lines
\* 1522-1529 has no else branch, so contrast_type is unbound from 4.0 on
ContrastBody(f) ==
  IF ~HasTable(f, "glyf")
    THEN [contrast_ratio |-> None, contrast_type |-> "unknown", reason |-> "No glyf table"]
  ELSE IF CmapRaises(f) THEN Raise("'cmap'")
  ELSE IF f.cmap = None
    THEN Raise("argument of type 'NoneType' is not iterable")
  ELSE LET glyph_names == ProbeGlyphNames(f, ContrastSampleChars)
       IN  IF glyph_names = <<>>
             THEN [contrast_ratio |-> None, contrast_type |-> "unknown",
                   reason |-> "No sample glyphs found"]
           ELSE LET contrast_ratios == ContrastRatios(f, Measurable(f, glyph_names))
                IN  IF contrast_ratios # <<>>
                      THEN LET avg_contrast_ratio ==
                                 RDiv(RSum(contrast_ratios), RInt(Len(contrast_ratios)))
                           IN  IF ~RLt(avg_contrast_ratio, RInt(4))
                                 THEN Raise("local variable 'contrast_type' referenced before assignment")
                               ELSE [contrast_ratio |-> avg_contrast_ratio,
                                     contrast_type |->
                                       IF RLt(avg_contrast_ratio, Rat(11, 10)) THEN "monoline"
                                       ELSE IF RLt(avg_contrast_ratio, Rat(15, 10))
                                         THEN "low contrast"
                                       ELSE IF RLt(avg_contrast_ratio, Rat(25, 10))
                                         THEN "medium contrast"
                                       ELSE "extreme contrast",
                                     sample_size |-> Len(contrast_ratios)]
                    ELSE ContrastFromStyle(determine_font_style(f))

ContrastError(e) ==
  [contrast_ratio |-> None, contrast_type |-> "error", reason |-> e.exc]

analyze_stroke_contrast(f) == Except(ContrastBody(f), ContrastError)


---------------------------------------------------------------------------
(* extract_font_properties                                                 *)

\* ext is os.path.splitext(font_path)[1].lower()
detect_font_format(f, ext) ==
  IF ext = ".woff2" THEN "WOFF2"
  ELSE IF ext = ".woff" THEN "WOFF"
  ELSE IF HasOutlineCFF(f) THEN "OpenType-CFF"
  ELSE IF HasTable(f, "glyf") THEN (IF ext = ".otf" THEN "OpenType-TT" ELSE "TrueType")
  ELSE IF ext = ".otf" THEN "OpenType"
  ELSE IF ext = ".ttf" THEN "TrueType"
  ELSE "Unknown"

\* weight_map.get(weight_class, "Custom")
WeightDescription(weight_class) ==
  CASE weight_class = 100 -> "Thin"
    [] weight_class = 200 -> "Extra Light"
    [] weight_class = 300 -> "Light"
    [] weight_class = 400 -> "Regular"
    [] weight_class = 500 -> "Medium"
    [] weight_class = 600 -> "Semi Bold"
    [] weight_class = 700 -> "Bold"
    [] weight_class = 800 -> "Extra Bold"
    [] weight_class = 900 -> "Black"
    [] OTHER -> "Custom"

\* width_map.get(width_class, "Custom")
WidthDescription(width_class) ==
  CASE width_class = 1 -> "Ultra Condensed"
    [] width_class = 2 -> "Extra Condensed"
    [] width_class = 3 -> "Condensed"
    [] width_class = 4 -> "Semi Condensed"
    [] width_class = 5 -> "Normal"
    [] width_class = 6 -> "Semi Expanded"
    [] width_class = 7 -> "Expanded"
    [] width_class = 8 -> "Extra Expanded"
    [] width_class = 9 -> "Ultra Expanded"
    [] OTHER -> "Custom"

\* the file at font_path cannot be parsed: TTFont(font_path) raises
Unreadable == [loaded |-> FALSE]

\* the records the analysers return for the font (lines 1652-1688); each
\* analyser is called once
Analyses(f) ==
  IF f = Unreadable THEN None
  ELSE [stroke_info       |-> calculate_stroke_width(f),
        aspect_ratio_info |-> classify_font_width_by_aspect_ratio(f),
        style             |-> determine_font_style(f),
        shape_info        |-> analyze_glyph_shapes(f),
        spacing_info      |-> analyze_spacing(f),
        vertical_metrics  |-> analyze_vertical_metrics(f),
        contrast_info     |-> analyze_stroke_contrast(f)]

\* the font_properties dict of lines 1691-1712, before the personality is
\* added, from the records a of the analysers; font['OS/2'] (line 1635) and
\* font['name'] (line 1711) raise KeyError when the table is absent
FontProperties(f, ext, a) ==
  IF ~HasTable(f, "OS/2") THEN Raise("'OS/2'")
  ELSE IF ~HasTable(f, "name") THEN Raise("'name'")
  ELSE LET weight_class == f.OS2.usWeightClass
           width_class == f.OS2.usWidthClass
       IN  [format |-> detect_font_format(f, ext),
            style |-> a.style,
            weight |-> [class |-> weight_class,
                        description |-> WeightDescription(weight_class),
                        stroke_width |-> a.stroke_info.stroke_width,
                        normalized_stroke_width |-> a.stroke_info.normalized_stroke_width,
                        weight_by_stroke |-> a.stroke_info.weight_by_stroke],
            width |-> [class |-> width_class,
                       description |-> WidthDescription(width_class),
                       aspect_ratio |-> a.aspect_ratio_info.aspect_ratio,
                       width_by_aspect |-> a.aspect_ratio_info.width_by_aspect],
            shape |-> a.shape_info,
            spacing |-> a.spacing_info,
            vertical_metrics |-> a.vertical_metrics,
            contrast |-> a.contrast_info,
            font_name |-> IF f.name.full # None THEN f.name.full[1] ELSE "Unknown"]

\* the try block of extract_font_properties, a the records of the analysers
ExtractBody(f, ext, seed, a) ==
  IF f = Unreadable THEN Raise("Not a TrueType or OpenType font")
  ELSE CHOOSE r \in
         { IF IsExc(font_properties) THEN font_properties
           ELSE font_properties
                @@ [personality |-> analyze_font_personality(font_properties, seed)] :
             font_properties \in {FontProperties(f, ext, a)} } : TRUE

\* the except clause returns None
ExtractResult(f, ext, seed, a) ==
  CHOOSE r \in { IF IsExc(b) THEN Ret(None) ELSE b :
                   b \in {ExtractBody(f, ext, seed, a)} } : TRUE

extract_font_properties(f, ext, seed) ==
  CHOOSE r \in { ExtractResult(f, ext, seed, a) : a \in {Analyses(f)} } : TRUE


---------------------------------------------------------------------------
(* The fonts the analysers are run on                                      *)

\* how many of the tables of a font may be missing
MaxMissingTables == 1

MetadataTables == {"OS/2", "name", "post", "hmtx", "head", "hhea", "cmap"}

\* the outline table of the font, or "none"
Outlines == {"glyf", "CFF ", "none"}

WeightClasses == {300, 800}

\* getBestCmap() of a font: None, or <<a dict from characters to glyph names>>
CmapNone == None

CmapEmpty == <<[c \in {} |-> "empty"]>>

\* no character any analyser probes
CmapNoProbe == <<[c \in {"?"} |-> "box"]>>

\* 'O' alone, a ring of two contours
CmapRingO == <<[c \in {"O"} |-> "ring"]>>

\* eight shape probes with 40 on-curve and 10 off-curve points in all
CmapAngular ==
  <<[c \in {"a", "e", "o", "n", "h", "m", "v", "w"} |->
       IF c \in {"a", "e", "o", "n", "h"} THEN "rect5c" ELSE "rect5"]>>

CmapLatin ==
  <<[c \in {"H", "I", "O", "o", "n", "l", "x", "B", "D", "b", "a", "e", "g", "m", "w"} |->
       CASE c = "H" -> "widestem"
         [] c \in {"I", "l", "B", "D", "b"} -> "stem"
         [] c = "O" -> "ring8"
         [] c \in {"o", "x"} -> "xbox"
         [] c = "n" -> "box"
         [] c = "m" -> "bar"
         [] c = "a" -> "blob"
         [] c = "e" -> "empty"
         [] c = "g" -> "comb"
         [] c = "w" -> "missing"]>>

CmapBars ==
  <<[c \in {"H", "B", "a", "x"} |->
       CASE c \in {"H", "B"} -> "bar"
         [] c = "a" -> "blob"
         [] c = "x" -> "flat"]>>

\* probes that resolve to glyphs nothing can be measured on
CmapUnmeasurable ==
  <<[c \in {"H", "I", "O", "o", "a", "x", "B"} |->
       CASE c \in {"H", "o", "a", "x"} -> "empty"
         [] c \in {"O", "B"} -> "flat"
         [] c = "I" -> "ringInnerFirst"]>>

Cmaps ==
  {CmapNone, CmapEmpty, CmapNoProbe, CmapRingO, CmapAngular, CmapLatin, CmapBars,
   CmapUnmeasurable}

\* The scalar metadata of a font: family is getName(1, 3, 1, 1033) and full
\* getName(4, 3, 1, 1033), None or <<string>>; panose is <<bFamilyType,
\* bSerifStyle, bLetterForm>>; sx and cap are sxHeight and sCapHeight, None
\* when the OS/2 table has no such field.
Profile(family, panose, fixed, familyClass, cffNames, widthClass, metrics,
        sx, cap, asc, desc, upm) ==
  [family |-> family, panose |-> panose, fixed |-> fixed,
   familyClass |-> familyClass, cffNames |-> cffNames, widthClass |-> widthClass,
   metrics |-> metrics, sx |-> sx, cap |-> cap, asc |-> asc, desc |-> desc,
   upm |-> upm]

Profiles ==
  { Profile(<<"Helvetica">>, <<0, 0, 0>>, 0, 0, <<>>, 5,
            <<<<600, 80>>, <<500, 60>>>>, <<500>>, <<700>>, 700, -300, 1000),
    Profile(<<"Noto Serif">>, <<2, 5, 3>>, 0, 256, <<"Noto Serif">>, 3,
            <<<<400, 20>>, <<420, 40>>>>, <<400>>, <<700>>, 800, -200, 1000),
    Profile(<<"Roboto Sans">>, <<2, 11, 0>>, 0, 2048, <<"Open Sans">>, 7,
            <<<<800, 150>>, <<700, 110>>>>, <<560>>, <<700>>, 600, -400, 1000),
    Profile(None, <<2, 5, 3>>, 0, 256, <<"Helvetica">>, 5,
            <<>>, None, <<0>>, 750, -250, 1000),
    Profile(<<"Brush Script">>, <<3, 0, 9>>, 0, 2560, <<"Brush Script">>, 5,
            <<<<600, 80>>, <<500, 60>>>>, <<450>>, <<700>>, 700, -300, 1000),
    Profile(<<"Helvetica">>, <<0, 0, 0>>, 1, 0, <<>>, 0,
            <<<<600, 80>>, <<600, 80>>>>, <<500>>, <<700>>, 700, -300, 1000),
    Profile(<<"Art Deco Display">>, <<4, 0, 0>>, 0, 2304, <<"Art Deco Display">>, 5,
            <<<<600, 80>>, <<500, 60>>>>, <<500>>, <<700>>, 500, 500, 1000),
    Profile(<<"Round Gothic">>, <<0, 0, 10>>, 0, 0, <<"Round Gothic">>, 5,
            <<<<600, 80>>, <<500, 60>>>>, <<500>>, <<700>>, 700, -300, 0),
    Profile(<<"Roboto Serif">>, <<2, 5, 3>>, 0, 256, <<"Roboto Serif">>, 5,
            <<<<600, 80>>, <<500, 60>>>>, <<500>>, <<700>>, 700, -300, 1000),
    Profile(<<"Handwriting Sans">>, <<3, 0, 9>>, 1, 2560, <<"Handwriting Sans">>, 5,
            <<<<600, 80>>, <<500, 60>>>>, <<500>>, <<700>>, 700, -300, 1000),
    Profile(<<"Display Sans">>, <<4, 0, 0>>, 0, 2304, <<"Display Sans">>, 5,
            <<<<600, 80>>, <<500, 60>>>>, <<500>>, <<700>>, 700, -300, 1000),
    Profile(<<"Helvetica">>, <<2, 11, 0>>, 1, 0, <<>>, 5,
            <<<<600, 80>>, <<500, 60>>>>, <<500>>, <<700>>, 700, -300, 1000),
    Profile(<<"Dancing Display">>, <<4, 0, 0>>, 0, 2304, <<"Dancing Display">>, 5,
            <<<<600, 80>>, <<500, 60>>>>, <<500>>, <<700>>, 700, -300, 1000) }

\* the TTFont with the outline table, without the tables of missing, with the
\* cmap, the metadata profile p and the weight class w
MakeFont(outline, missing, cmap, p, w) ==
  [tables |-> (MetadataTables \cup (IF outline = "none" THEN {} ELSE {outline}))
              \ missing,
   name   |-> [family |-> p.family, full |-> p.family],
   OS2    |-> [usWeightClass |-> w, usWidthClass |-> p.widthClass,
               panose |-> [bFamilyType |-> p.panose[1], bSerifStyle |-> p.panose[2],
                           bLetterForm |-> p.panose[3]],
               sFamilyClass |-> p.familyClass,
               sTypoAscender |-> p.asc, sTypoDescender |-> p.desc]
              @@ (IF p.sx # None THEN [sxHeight |-> p.sx[1]] ELSE EmptyDict)
              @@ (IF p.cap # None THEN [sCapHeight |-> p.cap[1]] ELSE EmptyDict),
   post   |-> [isFixedPitch |-> p.fixed],
   head   |-> [unitsPerEm |-> p.upm],
   hhea   |-> [ascent |-> p.asc, descent |-> p.desc],
   hmtx   |-> [metrics |-> p.metrics],
   cmap   |-> IF "cmap" \in missing THEN CmapNone ELSE cmap,
   glyf   |-> IF outline = "glyf" THEN [n \in GlyphNames |-> Glyph(n)] ELSE EmptyDict,
   CFF    |-> [fontNames |-> p.cffNames]]

MissingTableSets ==
  { m \in SUBSET MetadataTables : Cardinality(m) <= MaxMissingTables }

Fonts ==
  { MakeFont(o, m, c, p, w) :
      o \in Outlines, m \in MissingTableSets, c \in Cmaps, p \in Profiles,
      w \in WeightClasses }

\* the extension of font_path
Extensions == {".ttf", ".otf", ".woff2"}

---------------------------------------------------------------------------
(* The analysers run on a font                                             *)

Init ==
  /\ ttfont \in Fonts \cup {Unreadable}
  /\ info = NoInfo
  /\ pc = "start"
  /\ op = "none"
  /\ out = NoResult

Loaded == pc = "start" /\ ttfont # Unreadable

Returns(name, value) ==
  /\ out' = value
  /\ op' = name
  /\ pc' = "done"
  /\ UNCHANGED <<ttfont, info>>

DetermineFontStyle ==
  Loaded /\ Returns("determine_font_style", Ret(determine_font_style(ttfont)))

CalculateStrokeWidth ==
  Loaded /\ Returns("calculate_stroke_width", calculate_stroke_width(ttfont))

ClassifyFontWidthByAspectRatio ==
  Loaded /\ Returns("classify_font_width_by_aspect_ratio",
                    classify_font_width_by_aspect_ratio(ttfont))

AnalyzeGlyphShapes ==
  Loaded /\ Returns("analyze_glyph_shapes", analyze_glyph_shapes(ttfont))

AnalyzeSpacing ==
  Loaded /\ Returns("analyze_spacing", analyze_spacing(ttfont))

AnalyzeVerticalMetrics ==
  Loaded /\ Returns("analyze_vertical_metrics", analyze_vertical_metrics(ttfont))

AnalyzeStrokeContrast ==
  Loaded /\ Returns("analyze_stroke_contrast", analyze_stroke_contrast(ttfont))

\* info keeps the font_info that was handed to analyze_font_personality
ExtractFontProperties ==
  /\ pc = "start"
  /\ \E a \in {Analyses(ttfont)} :
       \E ext \in Extensions, seed \in HashSeeds :
         /\ out' = ExtractResult(ttfont, ext, seed, a)
         /\ info' = IF out' = Ret(None) THEN NoInfo
                    ELSE [k \in DOMAIN out' \ {"personality"} |-> out'[k]]
  /\ op' = "extract_font_properties"
  /\ pc' = "done"
  /\ UNCHANGED ttfont

Next ==
  \/ DetermineFontStyle
  \/ CalculateStrokeWidth
  \/ ClassifyFontWidthByAspectRatio
  \/ AnalyzeGlyphShapes
  \/ AnalyzeSpacing
  \/ AnalyzeVerticalMetrics
  \/ AnalyzeStrokeContrast
  \/ ExtractFontProperties

Spec == Init /\ [][Next]_vars


---------------------------------------------------------------------------
(* Properties of the analysers and of extract_font_properties              *)

Done(name) == pc = "done" /\ op = name

ExtractDone == Done("extract_font_properties") /\ ttfont # Unreadable

\* the result None of extract_font_properties
Aborted == Ret(None)

MissingTables(f) == MetadataTables \ f.tables

HasOutline(f) == HasTable(f, "glyf") \/ HasOutlineCFF(f)

\* C2 as stated: for a loadable font with outlines in which at most one
\* table is missing, extract_font_properties returns a font-properties
\* record with a personality profile, never None.
C2_Original ==
  (ExtractDone /\ HasOutline(ttfont) /\ Cardinality(MissingTables(ttfont)) <= 1)
    => (out # Aborted /\ Has(out, "personality"))

\* the record r carries a non-empty reason string
HasReason(r) == Has(r, "reason") /\ r.reason # ""

\* the label is 'unknown' or 'error' and a non-empty reason is given
Explained(label, r) == label \in {"unknown", "error"} /\ HasReason(r)

\* getBestCmap() raises or returns None or an empty dict
NoCmap(f) == CmapRaises(f) \/ CmapFalsy(f)

\* no cmap, or none of the characters of chars is in it
NoProbe(f, chars) == NoCmap(f) \/ ProbeGlyphNames(f, chars) = <<>>

\* the failure cases of each analyser: absent or empty cmap, no resolvable
\* probe glyph, zero valid measurements, a missing table the analyser needs
StrokeFails(f) ==
  \/ ~HasTable(f, "head")
  \/ NoProbe(f, StrokeSampleChars)
  \/ HasTable(f, "glyf")
       /\ StrokeWidths(f, ProbeGlyphNames(f, StrokeSampleChars)) = <<>>
  \/ ~HasTable(f, "glyf") /\ ~HasOutlineCFF(f)
  \/ ~HasTable(f, "glyf") /\ ~HasTable(f, "OS/2")

AspectFails(f) ==
  \/ ~HasTable(f, "glyf")
  \/ NoProbe(f, AspectSampleChars)
  \/ AspectRatios(f, ProbeGlyphNames(f, AspectSampleChars)) = <<>>

ShapeFails(f) ==
  \/ NoProbe(f, ShapeSampleChars)
  \/ HasTable(f, "glyf")
       /\ ShapeCounted(f, ProbeGlyphNames(f, ShapeSampleChars)) = <<>>
  \/ ~HasTable(f, "glyf") /\ ~HasOutlineCFF(f)

SpacingFails(f) ==
  \/ ~HasTable(f, "hmtx")
  \/ f.hmtx.metrics = <<>>
  \/ ~HasTable(f, "head")

VerticalFails(f) == ~({"glyf", "head", "hhea", "OS/2"} \subseteq f.tables)

\* the contrast analyser cannot look a probe up
ContrastNoProbe(f) ==
  \/ ~HasTable(f, "glyf")
  \/ CmapRaises(f)
  \/ f.cmap = None
  \/ ProbeGlyphNames(f, ContrastSampleChars) = <<>>

\* the probes resolve and none of them yields a ratio
ContrastNoRatio(f) ==
  /\ ~ContrastNoProbe(f)
  /\ ContrastRatios(f, Measurable(f, ProbeGlyphNames(f, ContrastSampleChars))) = <<>>

\* what C3 says of the five analysers other than the contrast analyser
C3_Others ==
  /\ Done("calculate_stroke_width") /\ StrokeFails(ttfont)
       => Explained(out.weight_by_stroke, out)
  /\ Done("classify_font_width_by_aspect_ratio") /\ AspectFails(ttfont)
       => Explained(out.width_by_aspect, out)
  /\ Done("analyze_glyph_shapes") /\ ShapeFails(ttfont)
       => Explained(out.type, out)
  /\ Done("analyze_spacing") /\ SpacingFails(ttfont)
       => Explained(out.spacing_type, out) /\ Explained(out.width_type, out)
  /\ Done("analyze_vertical_metrics") /\ VerticalFails(ttfont)
       => DOMAIN out = {"error"} /\ out.error # ""

Analysers ==
  {"calculate_stroke_width", "classify_font_width_by_aspect_ratio",
   "analyze_glyph_shapes", "analyze_vertical_metrics", "analyze_spacing",
   "analyze_stroke_contrast"}

\* the analyser returned a dict: no exception left it
ReturnedRecord == op \in Analysers /\ pc = "done" => ~IsExc(out) /\ out # NoResult

\* C3 as stated: every analyser returns a record, and in each of its failure
\* cases (zero valid measurements included, for every analyser) the label is
\* 'unknown' or 'error' with a non-empty reason.
C3_Original ==
  /\ ReturnedRecord
  /\ C3_Others
  /\ Done("analyze_stroke_contrast")
       /\ (ContrastNoProbe(ttfont) \/ ContrastNoRatio(ttfont))
       => Explained(out.contrast_type, out)

\* C3 amended: every analyser returns a record and never raises; in its
\* failure cases the label is 'unknown' or 'error' with a non-empty reason
\* (vertical metrics: a record with the 'error' entry only), except that the
\* contrast analyser, when its probes resolve and none yields a ratio,
\* returns the style-keyed estimate: a contrast label, estimated true and no
\* reason.
C3_Amended ==
  /\ ReturnedRecord
  /\ C3_Others
  /\ Done("analyze_stroke_contrast") /\ ContrastNoProbe(ttfont)
       => Explained(out.contrast_type, out)
  /\ Done("analyze_stroke_contrast") /\ ContrastNoRatio(ttfont)
       => /\ out = ContrastFromStyle(determine_font_style(ttfont))
          /\ out.contrast_type \in {"low contrast", "medium contrast"}
          /\ out.estimated
          /\ ~Has(out, "reason")

\* C3 witness: the stroke probes resolve, none can be measured, and the
\* stroke record is 'unknown' with its reason
C3_Witness ==
  /\ Done("calculate_stroke_width")
  /\ HasTable(ttfont, "head") /\ HasTable(ttfont, "glyf")
  /\ ~NoProbe(ttfont, StrokeSampleChars)
  /\ StrokeWidths(ttfont, ProbeGlyphNames(ttfont, StrokeSampleChars)) = <<>>
  /\ out.weight_by_stroke = "unknown"
  /\ out.reason = "Could not measure stroke widths"


\* the font of C4: the cmap table is there and getBestCmap() is an empty dict
C4_Scenario ==
  /\ ExtractDone
  /\ HasTable(ttfont, "cmap")
  /\ ttfont.cmap = CmapEmpty

\* the records the pipeline obtains from the three probe-based analysers
C4_RecordsUnknown ==
  /\ Explained(calculate_stroke_width(ttfont).weight_by_stroke,
               calculate_stroke_width(ttfont))
  /\ Explained(classify_font_width_by_aspect_ratio(ttfont).width_by_aspect,
               classify_font_width_by_aspect_ratio(ttfont))
  /\ Explained(analyze_glyph_shapes(ttfont).type, analyze_glyph_shapes(ttfont))
  /\ out.weight.weight_by_stroke = calculate_stroke_width(ttfont).weight_by_stroke
  /\ out.width.width_by_aspect = "unknown"
  /\ out.shape = analyze_glyph_shapes(ttfont)
  /\ out.shape.type = "unknown"

\* a font with outlines and every metadata table
Complete(f) == HasOutline(f) /\ MissingTables(f) = {}

\* C4 as stated, for the fonts in which no table is missing: with an empty
\* cmap the pipeline gives 'unknown' stroke, aspect and shape records with
\* non-empty reasons, and the description is the default neutral sentence.
C4_Original ==
  C4_Scenario /\ Complete(ttfont) =>
    /\ out # Aborted
    /\ C4_RecordsUnknown
    /\ out.weight.weight_by_stroke = "unknown"
    /\ out.personality.emotional_description = NeutralSentence

\* the traits when only the rules keyed on the style, the width description,
\* the spacing and the vertical metrics apply
MetadataTraits(font_info) ==
  NormalizeTraits(AddDeltas(ZeroTraits,
       StyleRule(font_info.style)
    \o WidthRule(font_info.width.description)
    \o SpacingRule(font_info.spacing.spacing_type)
    \o XHeightRule(font_info.vertical_metrics)
    \o AscDescRule(font_info.vertical_metrics)))

\* C4 amended: with an empty cmap extract_font_properties returns None when
\* the OS/2 or the name table is missing; otherwise the stroke, aspect and
\* shape records are 'unknown' ('error' for the stroke record when the head
\* table is missing) with non-empty reasons, the weight, shape and contrast
\* rules add nothing, and the description is the default neutral sentence
\* exactly when the rules keyed on the style label, the width description, the
\* spacing and the vertical metrics leave every trait at 0.
C4_Amended ==
  C4_Scenario =>
    IF ~HasTable(ttfont, "OS/2") \/ ~HasTable(ttfont, "name") THEN out = Aborted
    ELSE /\ out # Aborted
         /\ C4_RecordsUnknown
         /\ out.weight.weight_by_stroke
              = (IF HasTable(ttfont, "head") THEN "unknown" ELSE "error")
         /\ out.personality.traits = MetadataTraits(out)
         /\ (out.personality.emotional_description = NeutralSentence
               <=> \A t \in DOMAIN out.personality.traits :
                     out.personality.traits[t] = 0)

\* C4 witness: a glyf font with every table and an empty cmap, 'unknown'
\* records and the neutral sentence
C4_Witness ==
  /\ C4_Scenario
  /\ HasTable(ttfont, "glyf")
  /\ MissingTables(ttfont) = {}
  /\ ttfont.head.unitsPerEm = 1000
  /\ out # Aborted
  /\ out.shape.reason = "No cmap table found"
  /\ out.weight.weight_by_stroke = "unknown"
  /\ out.personality.emotional_description = NeutralSentence

\* the record is marked as estimated
MarkedEstimated(r) ==
  \/ Has(r, "is_estimated") /\ r.is_estimated
  \/ Has(r, "estimated") /\ r.estimated

\* C5 as stated, for the stroke contrast record of the fonts in which no
\* table is missing and the probes resolve: for a font with CFF outlines and
\* no glyf table the record is marked as estimated.
C5_Original ==
  (/\ Done("analyze_stroke_contrast")
   /\ ~HasTable(ttfont, "glyf")
   /\ HasOutlineCFF(ttfont)
   /\ MissingTables(ttfont) = {}
   /\ ttfont.cmap = CmapLatin)
    => MarkedEstimated(out)

\* C6 as stated: a second run of analyze_font_personality on the same
\* font_info returns the profile the first run returned.
C6_Original ==
  PersonalityDone =>
    \A seed \in HashSeeds : analyze_font_personality(info, seed) = out

\* the font f with the OS/2 weight class w
WithWeightClass(f, w) ==
  [f EXCEPT !.OS2 = [k \in DOMAIN f.OS2 |-> IF k = "usWeightClass" THEN w ELSE f.OS2[k]]]

\* the 'strength' values of the profiles extract_font_properties can return
\* for f (none when it returns None)
Strengths(f) ==
  { r.personality.traits["strength"] :
      r \in { extract_font_properties(f, ext, seed) :
                ext \in Extensions, seed \in HashSeeds } \ {Aborted} }

\* C7: of two fonts that differ in the OS/2 weight class only, 300 and 800,
\* the 800 font's 'strength' is greater than or equal to the 300 font's,
\* with glyf outlines and without.
C7_StrengthMonotone ==
  (ExtractDone /\ out # Aborted /\ ttfont.OS2.usWeightClass = 800)
    => \A s \in Strengths(WithWeightClass(ttfont, 300)) :
         s <= out.personality.traits["strength"]

\* C7 witness: a CFF font of weight class 800, labelled extra bold from the
\* weight class, whose strength exceeds that of its weight class 300 twin
C7_Witness ==
  /\ ExtractDone
  /\ out # Aborted
  /\ ttfont.OS2.usWeightClass = 800
  /\ ~HasTable(ttfont, "glyf") /\ HasOutlineCFF(ttfont)
  /\ out.weight.weight_by_stroke = "extra bold"
  /\ Strengths(WithWeightClass(ttfont, 300)) # {}
  /\ \A s \in Strengths(WithWeightClass(ttfont, 300)) :
       s < out.personality.traits["strength"]


\* the two contours of a glyph of two contours, as point sequences
FirstContour(g) == SubSeq(g.coordinates, 1, g.endPtsOfContours[1] + 1)

SecondContour(g) ==
  SubSeq(g.coordinates, g.endPtsOfContours[1] + 2, g.endPtsOfContours[2] + 1)

\* the stroke probes of f that resolve to a glyph of two contours
TwoContourProbes(f) ==
  { n \in Range(ProbeGlyphNames(f, StrokeSampleChars)) :
      n \in DOMAIN f.glyf /\ f.glyf[n].numberOfContours = 2 }

\* the font of the scenario of C8: 1000 units per em, and 'O', a ring of
\* mean radius 500 around one of mean radius 380, is its only stroke probe
C8_Scenario ==
  /\ Done("calculate_stroke_width")
  /\ HasTable(ttfont, "glyf") /\ HasTable(ttfont, "head") /\ HasTable(ttfont, "cmap")
  /\ ttfont.head.unitsPerEm = 1000
  /\ ttfont.cmap = CmapRingO
  /\ MeanRadius(FirstContour(Glyph("ring"))) = RInt(500)
  /\ MeanRadius(SecondContour(Glyph("ring"))) = RInt(380)

\* C8 as stated: in the scenario the stroke width is 120, the normalized
\* stroke width 0.12 and the weight band 'medium'.
C8_Original ==
  C8_Scenario =>
    /\ out.stroke_width = RInt(120)
    /\ out.normalized_stroke_width = Rat(12, 100)
    /\ out.weight_by_stroke = "medium"

\* C8 amended: measure_circular_glyph_stroke_width returns the mean radius of
\* the contour with more points (the first contour when both have as many)
\* minus the mean radius of the other; in the scenario the stroke width is
\* 120, the normalized stroke width 0.12 and the weight band 'bold', 0.12
\* being the exclusive upper bound of 'medium'.
C8_Amended ==
  /\ Done("calculate_stroke_width") /\ HasTable(ttfont, "glyf") /\ ~NoCmap(ttfont)
       => \A n \in TwoContourProbes(ttfont) :
            LET g == Glyph(n)
                first == FirstContour(g)
                second == SecondContour(g)
            IN  measure_circular_glyph_stroke_width(g, g.coordinates, g.flags)
                  = IF Len(second) > Len(first)
                      THEN RSub(MeanRadius(second), MeanRadius(first))
                      ELSE RSub(MeanRadius(first), MeanRadius(second))
  /\ C8_Scenario =>
       /\ out.stroke_width = RInt(120)
       /\ out.normalized_stroke_width = Rat(12, 100)
       /\ out.weight_by_stroke = "bold"

\* C8 witness: the scenario, measured as 120 and labelled 'bold'
C8_Witness ==
  /\ C8_Scenario
  /\ TwoContourProbes(ttfont) = {"ring"}
  /\ out.stroke_width = RInt(120)
  /\ out.weight_by_stroke = "bold"

\* the totals of analyze_glyph_shapes on the font of the state
C10_Totals == ShapeTotals(ttfont, ProbeGlyphNames(ttfont, ShapeSampleChars))

\* the scenario of C10: 40 on-curve and 10 off-curve points in all, and an
\* average turn angle above 60 degrees per on-curve point
C10_Scenario ==
  /\ Done("analyze_glyph_shapes")
  /\ HasTable(ttfont, "glyf")
  /\ ~NoProbe(ttfont, ShapeSampleChars)
  /\ C10_Totals.straight_segments = 40
  /\ C10_Totals.curve_segments = 10
  /\ C10_Totals.total_angle_changes > 60 * 40

\* C10 as stated: in the scenario the band of the curve ratio alone is
\* 'slightly curvy' and the returned type is 'angular'.
C10_Original ==
  C10_Scenario =>
    /\ ShapeBandOfRatio(C10_Totals.curve_segments, C10_Totals.straight_segments)
         = "slightly curvy"
    /\ out.type = "angular"

\* C10 amended: in the scenario the curve ratio is 0.25, the band of the
\* curve ratio alone is already 'angular' (0.25 is not above 0.3), the angle
\* refinement leaves it, and the returned type is 'angular'; the same holds
\* for an average turn angle of exactly 70 degrees.
C10_Amended ==
  /\ C10_Scenario =>
       /\ out.curve_to_straight_ratio = Rat(25, 100)
       /\ ShapeBandOfRatio(C10_Totals.curve_segments, C10_Totals.straight_segments)
            = "angular"
       /\ ShiftTowardAngular("angular") = "angular"
       /\ out.type = "angular"
  /\ Done("analyze_glyph_shapes") =>
       ShapeResults(10, 40, 70 * 40)
         = [curve_to_straight_ratio |-> Rat(25, 100), type |-> "angular",
            average_angle_change |-> RInt(70)]

\* C10 witness: the scenario with an average turn angle of 72 degrees
C10_Witness ==
  /\ C10_Scenario
  /\ out.average_angle_change = RInt(72)
  /\ out.type = "angular"

---------------------------------------------------------------------------
(* C11: missing or unknown feature records                                 *)

\* the deltas of the rules whose feature record is present in font_info: a
\* rule keyed on an absent record contributes nothing
TolerantDeltas(font_info) ==
     (IF Has(font_info, "style") THEN StyleRule(font_info.style) ELSE <<>>)
  \o (IF Has(font_info, "weight") THEN WeightRule(font_info.weight.weight_by_stroke)
      ELSE <<>>)
  \o (IF Has(font_info, "width") THEN WidthRule(font_info.width.description) ELSE <<>>)
  \o (IF Has(font_info, "shape") THEN ShapeRule(font_info.shape.type) ELSE <<>>)
  \o (IF Has(font_info, "spacing") THEN SpacingRule(font_info.spacing.spacing_type)
      ELSE <<>>)
  \o XHeightRule(GetOrEmpty(font_info, "vertical_metrics"))
  \o AscDescRule(GetOrEmpty(font_info, "vertical_metrics"))
  \o ContrastRule(GetOrEmpty(font_info, "contrast"))

\* no rule at all can fire on font_info: nothing is contributed
NothingFires(font_info) == TolerantDeltas(font_info) = <<>>

NeutralProfile(r) ==
  /\ r.traits = ZeroTraits
  /\ r.emotional_description = NeutralSentence
  /\ r.suitable_use_cases.suitable_for = <<>>
  /\ r.suitable_use_cases.less_suitable_for = <<>>

\* C11 as stated: a feature record that is absent from font_info or labelled
\* 'unknown' only silences the rules keyed on it, the traits are those of the
\* remaining rules, and when no record contributes the profile is the
\* neutral one (11 traits at 0, default description, empty use-case lists).
C11_Original ==
  PersonalityDone =>
    /\ out.traits = NormalizeTraits(AddDeltas(ZeroTraits, TolerantDeltas(info)))
    /\ (NothingFires(info) /\ (Has(info, "style") => info.style = "unknown"))
         => NeutralProfile(out)

\* the part of C11 that holds: records that are present and labelled
\* 'unknown' silence their rules, and the all-unknown font_info gives the
\* neutral profile
C11_UnknownTolerated ==
  (PersonalityDone /\ info = AllUnknownInfo) => NeutralProfile(out)

C11_UnknownReached == PersonalityDone /\ info = AllUnknownInfo

---------------------------------------------------------------------------
(* C12: the family name decides between sans-serif and serif               *)

StyleDone == Done("determine_font_style")

\* the font has a name table whose family-name record exists
HasFamilyName(f) == HasTable(f, "name") /\ f.name.family # None

FamilyName(f) == f.name.family[1]

\* C12 as stated: a family name that contains 'sans' and not 'serif' gives
\* 'sans-serif' and one that contains 'serif' and not 'sans' gives 'serif',
\* whatever the other tables of the font hold.
C12_Original ==
  (StyleDone /\ HasFamilyName(ttfont)) =>
    /\ (Contains(FamilyName(ttfont), "sans") /\ ~Contains(FamilyName(ttfont), "serif"))
         => out.ret = "sans-serif"
    /\ (Contains(FamilyName(ttfont), "serif") /\ ~Contains(FamilyName(ttfont), "sans"))
         => out.ret = "serif"

\* the part of C12 that holds: names without 'roboto'
C12_WithoutRoboto ==
  (StyleDone /\ HasFamilyName(ttfont) /\ ~Contains(FamilyName(ttfont), "roboto")) =>
    /\ (Contains(FamilyName(ttfont), "sans") /\ ~Contains(FamilyName(ttfont), "serif"))
         => out.ret = "sans-serif"
    /\ (Contains(FamilyName(ttfont), "serif") /\ ~Contains(FamilyName(ttfont), "sans"))
         => out.ret = "serif"

---------------------------------------------------------------------------
(* C13: the dominant traits                                                *)

\* the position of a trait in the declaration order of the personality dict
TraitIndex(t) == CHOOSE i \in DOMAIN TraitNames : TraitNames[i] = t

\* entry a of dominant_traits ranks before entry b: a higher value, or the
\* same value and an earlier declaration
RanksBefore(a, b) ==
  a[2] > b[2] \/ (a[2] = b[2] /\ TraitIndex(a[1]) < TraitIndex(b[1]))

PositiveCount(traits) == Cardinality({t \in DOMAIN traits : traits[t] > 0})

\* C13: dominant_traits holds at most 3 (trait, value) entries, each with
\* the trait's value, which is > 0; they are the highest-valued positive
\* traits of the profile in non-increasing order of value, and traits of
\* equal value keep the declaration order of the personality dict.
C13_DominantTraits ==
  PersonalityDone =>
    LET d == out.dominant_traits
        traits == out.traits
    IN  /\ Len(d) = Min2(3, PositiveCount(traits))
        /\ \A i \in DOMAIN d :
             /\ d[i][1] \in DOMAIN traits
             /\ d[i][2] = traits[d[i][1]]
             /\ d[i][2] > 0
        /\ \A i, j \in DOMAIN d : i < j => RanksBefore(d[i], d[j])
        /\ \A t \in DOMAIN traits :
             (traits[t] > 0 /\ \A i \in DOMAIN d : d[i][1] # t)
               => \A i \in DOMAIN d : RanksBefore(d[i], <<t, traits[t]>>)

\* C13 witness: more than three traits are positive, a trait of value 0
\* exists, and the third entry ties with a trait that was left out.
C13_Witness ==
  /\ PersonalityDone
  /\ Len(out.dominant_traits) = 3
  /\ PositiveCount(out.traits) > 3
  /\ \E t \in DOMAIN out.traits : out.traits[t] = 0
  /\ \E t \in DOMAIN out.traits :
       /\ \A i \in 1..3 : out.dominant_traits[i][1] # t
       /\ out.traits[t] = out.dominant_traits[3][2]
  /\ out.dominant_traits[1][2] > out.dominant_traits[3][2]

---------------------------------------------------------------------------
(* C14: the use-case lists hold no duplicate                               *)

\* no element of s occurs twice
NoDuplicates(s) == \A i, j \in DOMAIN s : s[i] = s[j] => i = j

\* the profile is not the error profile
Analysed == PersonalityDone /\ out.traits # <<>>

\* C14: neither suitable_for nor less_suitable_for holds the same string
\* twice, even when several rules that fired list the same string, and every
\* string that a fired rule contributes is in the list (and no other).
C14_NoDuplicates ==
  Analysed =>
    LET use_cases == out.suitable_use_cases
    IN  /\ NoDuplicates(use_cases.suitable_for)
        /\ NoDuplicates(use_cases.less_suitable_for)
        /\ Range(use_cases.suitable_for) = Range(SuitableAppended(info, out.traits))
        /\ Range(use_cases.less_suitable_for)
             = Range(LessSuitableAppended(info, out.traits))

\* C14 witness: a script font whose friendliness and playfulness rule fired
\* as well, so that 'Greeting cards' was appended twice; it is listed once.
C14_Witness ==
  /\ Analysed
  /\ ~NoDuplicates(SuitableAppended(info, out.traits))
  /\ Cardinality({i \in DOMAIN out.suitable_use_cases.suitable_for :
                    out.suitable_use_cases.suitable_for[i] = "Greeting cards"}) = 1
  /\ out.suitable_use_cases.less_suitable_for # <<>>

---------------------------------------------------------------------------
(* C15: the rules of determine_font_style are an ordered fallback          *)

\* the label the family-name rule gives for f, None when it does not fire
NameLabel(f) ==
  IF HasFamilyName(f) THEN StyleFromFamilyName(FamilyName(f)) ELSE None

\* the label the PANOSE rule gives for f, None when it does not fire
PanoseLabel(f) ==
  IF HasTable(f, "OS/2") /\ Has(f.OS2, "panose") THEN StyleFromPanose(f.OS2.panose)
  ELSE None

\* the fixed-pitch rule fires on f
FixedPitchFires(f) ==
  HasTable(f, "post") /\ Has(f.post, "isFixedPitch") /\ f.post.isFixedPitch # 0

\* the label of the last stage (cmap probes, then outlines or CFF metadata)
GlyphStageLabel(f) == Except(StyleFromGlyphs(f), StyleError).ret

\* C15: the rules are tried in the order family name, PANOSE, fixed pitch,
\* glyph stage, and the first one that fires decides the label; a later rule
\* decides only when no earlier rule fired, so a label an earlier rule gives
\* is never replaced by the label of a later rule.
C15_OrderedFallback ==
  StyleDone =>
    LET byName == NameLabel(ttfont)
        byPanose == PanoseLabel(ttfont)
    IN  /\ byName # None => out.ret = byName[1]
        /\ (HasTable(ttfont, "name") /\ byName = None /\ byPanose # None)
             => out.ret = byPanose[1]
        /\ (HasTable(ttfont, "name") /\ byName = None /\ byPanose = None
              /\ FixedPitchFires(ttfont))
             => out.ret = "monospace"
        /\ (HasTable(ttfont, "name") /\ HasTable(ttfont, "post") /\ byName = None
              /\ byPanose = None /\ ~FixedPitchFires(ttfont))
             => out.ret = GlyphStageLabel(ttfont)
        /\ out.ret = "monospace" => (byName = None /\ byPanose = None)

\* C15 witness: the three first rules would give three different labels
\* (family name 'sans-serif', PANOSE 'script', fixed pitch 'monospace') and
\* the result is the label of the family name.
C15_Witness ==
  /\ StyleDone
  /\ NameLabel(ttfont) = <<"sans-serif">>
  /\ PanoseLabel(ttfont) = <<"script">>
  /\ FixedPitchFires(ttfont)
  /\ out.ret = "sans-serif"

\* PANOSE decides against the fixed-pitch flag
C15_PanoseBeforeFixedPitch ==
  /\ StyleDone
  /\ NameLabel(ttfont) = None
  /\ PanoseLabel(ttfont) = <<"sans-serif">>
  /\ FixedPitchFires(ttfont)
  /\ out.ret = "sans-serif"

\* the fixed-pitch flag decides against the glyph stage
C15_FixedPitchBeforeGlyphs ==
  /\ StyleDone
  /\ FixedPitchFires(ttfont)
  /\ GlyphStageLabel(ttfont) \in {"serif", "sans-serif", "script", "decorative"}
  /\ out.ret = "monospace"

---------------------------------------------------------------------------
(* C16: script and decorative terms in the family name                     *)

\* the terms C16 names
ClaimedScriptTerms == {"script", "handwriting", "cursive", "brush"}

ClaimedDecorativeTerms == {"deco", "display", "ornament"}

\* C16 as stated: a family name with a script or handwriting term is
\* 'script', and one with a decorative, display or ornament term and no
\* script term is 'decorative'.
C16_Original ==
  (StyleDone /\ HasFamilyName(ttfont)) =>
    /\ ContainsAny(FamilyName(ttfont), ClaimedScriptTerms) => out.ret = "script"
    /\ (ContainsAny(FamilyName(ttfont), ClaimedDecorativeTerms)
          /\ ~ContainsAny(FamilyName(ttfont), ClaimedScriptTerms))
         => out.ret = "decorative"

\* the sans-serif and serif tests, which come first, do not fire on the name
NoSansSerifToken(family_name) ==
  /\ ~Contains(family_name, "roboto")
  /\ Contains(family_name, "sans") <=> Contains(family_name, "serif")

\* C16 amended: among the family names on which the sans-serif and serif
\* tests do not fire (no 'roboto', and 'sans' and 'serif' both or neither),
\* a name with one of script, handwriting, cursive, brush, pacifico, dancing
\* is 'script', and a name with none of these and one of deco, display,
\* ornament, fancy, elite, special is 'decorative'.
C16_Amended ==
  (StyleDone /\ HasFamilyName(ttfont) /\ NoSansSerifToken(FamilyName(ttfont))) =>
    LET scriptTerm ==
          ContainsAny(FamilyName(ttfont),
                      {"script", "handwriting", "cursive", "brush", "pacifico", "dancing"})
        decorativeTerm ==
          ContainsAny(FamilyName(ttfont),
                      {"deco", "display", "ornament", "fancy", "elite", "special"})
    IN  /\ scriptTerm => out.ret = "script"
        /\ (decorativeTerm /\ ~scriptTerm) => out.ret = "decorative"

\* C16 witness: a name with a decorative term and the script term 'dancing'
\* is 'script', although PANOSE says decorative.
C16_Witness ==
  /\ StyleDone
  /\ HasFamilyName(ttfont)
  /\ Contains(FamilyName(ttfont), "dancing")
  /\ Contains(FamilyName(ttfont), "display")
  /\ PanoseLabel(ttfont) = <<"decorative">>
  /\ out.ret = "script"

\* a name with decorative terms only is 'decorative'
C16_DecorativeReached ==
  /\ StyleDone
  /\ HasFamilyName(ttfont)
  /\ Contains(FamilyName(ttfont), "deco")
  /\ out.ret = "decorative"

---------------------------------------------------------------------------
(* Glyph scoring of determine_font_style on its own: glyf fonts whose      *)
(* family name, PANOSE and fixed-pitch flag decide nothing                 *)

\* a contour of k comb teeth: 4k on-curve points, left and right halves alike
Teeth(k) == OnCurve(Comb(k, 60, 700))

\* the probe glyphs of the style fonts, by (contours, points)
StyleGlyphNames ==
  {"empty", "stem", "hook", "comb", "double16", "double24", "ornate24", "ornate32"}

StyleGlyph(name) ==
  CASE name = "empty"    -> [numberOfContours |-> 0]
    [] name = "stem"     -> MakeGlyph(<<OnCurve(Rect(0, 0, 100, 700))>>)
    [] name = "hook"     -> MakeGlyph(<<OnCurve(<<<<0, 0>>, <<0, 100>>, <<0, 200>>,
                                                  <<300, 0>>>>)>>)
    [] name = "comb"     -> MakeGlyph(<<Teeth(6)>>)
    [] name = "double16" -> MakeGlyph(<<Teeth(2), Teeth(2)>>)
    [] name = "double24" -> MakeGlyph(<<Teeth(3), Teeth(3)>>)
    [] name = "ornate24" -> MakeGlyph(<<Teeth(2), Teeth(2), Teeth(1), Teeth(1)>>)
    [] name = "ornate32" -> MakeGlyph(<<Teeth(2), Teeth(2), Teeth(2), Teeth(2)>>)

\* getBestCmap() of a style font: 'I', 'a', 'o' and 'g' resolve
StyleCmaps ==
  { <<[c \in {"I", "a", "o", "g"} |->
         CASE c = "I" -> i [] c = "a" -> a [] c = "o" -> o [] c = "g" -> g]>> :
      i \in StyleGlyphNames, a \in StyleGlyphNames, o \in StyleGlyphNames,
      g \in {"comb", "ornate32"} }

\* name 'Helvetica', PANOSE family type 0, proportional
PlainProfile ==
  Profile(<<"Helvetica">>, <<0, 0, 0>>, 0, 0, <<>>, 5,
          <<<<600, 80>>, <<500, 60>>>>, <<500>>, <<700>>, 700, -300, 1000)

StyleFonts ==
  { [MakeFont("glyf", {}, c, PlainProfile, 400)
       EXCEPT !.glyf = [n \in StyleGlyphNames |-> StyleGlyph(n)]] :
      c \in StyleCmaps }

InitStyle ==
  /\ ttfont \in StyleFonts
  /\ info = NoInfo
  /\ pc = "start"
  /\ op = "none"
  /\ out = NoResult

NextStyle == DetermineFontStyle

SpecStyle == InitStyle /\ [][NextStyle]_vars

---------------------------------------------------------------------------
(* C17: thresholds and dominance in glyph scoring                          *)

\* the font reaches glyph scoring: no earlier rule fires, probes resolve
ScoredByGlyphs(f) ==
  /\ HasTable(f, "name") /\ HasTable(f, "post") /\ HasTable(f, "glyf")
  /\ NameLabel(f) = None /\ PanoseLabel(f) = None /\ ~FixedPitchFires(f)
  /\ ~NoCmap(f)
  /\ ProbeGlyphNames(f, StyleKeyChars) # <<>>

\* the accumulated score of a category over the scored probe glyphs
Score(f, kind) ==
  ScoreSum(f, Measurable(f, ProbeGlyphNames(f, StyleKeyChars)), kind)

\* the score a reaches the threshold and is strictly above b and c
Dominant(threshold, a, b, c) == a >= threshold /\ a > b /\ a > c

\* C17 as stated: glyph scoring returns a category only if its score
\* reaches its threshold (serif 2, script 3, decorative 3) and is strictly
\* greater than both other scores; in every other case the result is
\* 'sans-serif'.
C17_Original ==
  (StyleDone /\ ScoredByGlyphs(ttfont)) =>
    LET serif_score == Score(ttfont, "serif")
        script_score == Score(ttfont, "script")
        decorative_score == Score(ttfont, "decorative")
    IN  /\ out.ret \in {"serif", "script", "decorative", "sans-serif"}
        /\ out.ret = "serif" => Dominant(2, serif_score, script_score, decorative_score)
        /\ out.ret = "script" => Dominant(3, script_score, serif_score, decorative_score)
        /\ out.ret = "decorative"
             => Dominant(3, decorative_score, serif_score, script_score)

\* what the comparisons of the code guarantee: 'script' dominates both
\* other scores, 'serif' is strictly above script only, 'decorative' is
\* strictly above serif only
C17_CodeComparisons ==
  (StyleDone /\ ScoredByGlyphs(ttfont)) =>
    LET serif_score == Score(ttfont, "serif")
        script_score == Score(ttfont, "script")
        decorative_score == Score(ttfont, "decorative")
    IN  /\ out.ret \in {"serif", "script", "decorative", "sans-serif"}
        /\ out.ret = "script" => Dominant(3, script_score, serif_score, decorative_score)
        /\ out.ret = "serif"
             => (serif_score >= 2 /\ serif_score > script_score
                   /\ serif_score >= decorative_score)
        /\ out.ret = "decorative"
             => (decorative_score >= 3 /\ decorative_score > serif_score
                   /\ decorative_score >= script_score)

\* serif and decorative tie as the highest scores and 'serif' is returned
C17_TieReached ==
  /\ StyleDone /\ ScoredByGlyphs(ttfont)
  /\ Score(ttfont, "serif") = Score(ttfont, "decorative")
  /\ Score(ttfont, "serif") > Score(ttfont, "script")
  /\ out.ret = "serif"

C17_ScriptReached == StyleDone /\ ScoredByGlyphs(ttfont) /\ out.ret = "script"

\* the decorative score of a glyph never exceeds its serif score
C17_DecorativeBelowSerif ==
  StyleDone => Score(ttfont, "decorative") <= Score(ttfont, "serif")

---------------------------------------------------------------------------
(* calculate_stroke_width on its own: glyf fonts whose 'I' is a stem of a  *)
(* chosen width, and CFF fonts of chosen weight classes                    *)

\* the widths of the stem of 'I', 700 units high
StemWidths == {24, 25, 34, 35, 44, 45, 59, 60, 74, 75, 89, 90, 200}

\* the glyph of 'H': unmapped, or a glyph of the catalogue
Companions == {"none", "empty", "flat", "ringInnerFirst", "widestem"}

StrokeUnits == {500, 1000, 0}

Stem(w) == MakeGlyph(<<OnCurve(Rect(0, 0, w, 700))>>)

OutlineStrokeFont(w, companion, units_per_em) ==
  [MakeFont("glyf", {},
            <<[c \in (IF companion = "none" THEN {"I"} ELSE {"I", "H"}) |->
                 IF c = "I" THEN "I" ELSE companion]>>,
            PlainProfile, 400)
     EXCEPT !.glyf = [n \in {"I"} \cup (Companions \ {"none"}) |->
                        IF n = "I" THEN Stem(w) ELSE Glyph(n)],
            !.head = [unitsPerEm |-> units_per_em]]

\* usWeightClass values on both sides of every band limit
StrokeWeightClasses ==
  {1, 150, 151, 250, 251, 350, 351, 450, 451, 550, 551, 650, 651, 750, 751, 850,
   851, 1000}

EstimatedStrokeFont(outline, w, cmap, units_per_em) ==
  [MakeFont(outline, {}, cmap, PlainProfile, w)
     EXCEPT !.head = [unitsPerEm |-> units_per_em]]

StrokeFonts ==
  { OutlineStrokeFont(w, c, u) : w \in StemWidths, c \in Companions, u \in StrokeUnits }
  \cup { EstimatedStrokeFont(o, w, c, u) :
           o \in {"CFF ", "CFF2"}, w \in StrokeWeightClasses,
           c \in {<<[ch \in {"I"} |-> "I"]>>, CmapNone, CmapNoProbe},
           u \in {1000, 2048} }

InitStroke ==
  /\ ttfont \in StrokeFonts
  /\ info = NoInfo
  /\ pc = "start"
  /\ op = "none"
  /\ out = NoResult

NextStroke == CalculateStrokeWidth

SpecStroke == InitStroke /\ [][NextStroke]_vars

---------------------------------------------------------------------------
(* C18: the measured stroke width and its seven bands                      *)

StrokeDone == Done("calculate_stroke_width")

\* what measure_glyph_stroke_width gives for the probe glyphs of f that
\* resolve and are not empty, without the None results
ProbeMeasurements(f) ==
  LET names == Measurable(f, ProbeGlyphNames(f, StrokeSampleChars))
  IN  SelectSeq([i \in DOMAIN names |-> measure_glyph_stroke_width(f.glyf[names[i]])],
                LAMBDA w : w # None)

ValidMeasurements(f) == SelectSeq(ProbeMeasurements(f), LAMBDA w : w[1] > 0)

Mean(s) == RDiv(RSum(s), RInt(Len(s)))

\* f has outlines and at least one valid measurement
MeasuredOutlineFont(f) ==
  /\ HasTable(f, "glyf") /\ HasTable(f, "head") /\ ~NoCmap(f)
  /\ ValidMeasurements(f) # <<>>

\* the exclusive upper limits of the first six bands, in hundredths of an em
StrokeBandLimits == <<5, 7, 9, 12, 15, 18>>

StrokeBandLabels ==
  <<"thin", "light", "regular", "medium", "bold", "extra bold", "black">>

\* n lies in band i: at or above the limit of band i - 1, below its own
InStrokeBand(n, i) ==
  /\ i = 1 \/ ~RLt(n, Rat(StrokeBandLimits[i - 1], 100))
  /\ i = 7 \/ RLt(n, Rat(StrokeBandLimits[i], 100))

\* the record r is the one of the average of the measurements s
IsStrokeRecordOf(r, s, units_per_em) ==
  LET n == RDiv(Mean(s), RInt(units_per_em))
  IN  /\ r.stroke_width = Mean(s)
      /\ r.normalized_stroke_width = n
      /\ Cardinality({i \in 1..7 : InStrokeBand(n, i)}) = 1
      /\ \A i \in 1..7 : InStrokeBand(n, i) => r.weight_by_stroke = StrokeBandLabels[i]

\* C18 as stated: for an outline font with at least one valid measurement
\* the record holds the average of the measurements > 0, that average
\* divided by unitsPerEm, and the label of the one band of seven the
\* normalized value lies in.
C18_Original ==
  (StrokeDone /\ MeasuredOutlineFont(ttfont)) =>
    IsStrokeRecordOf(out, ValidMeasurements(ttfont), ttfont.head.unitsPerEm)

\* C18 amended: the same for a font whose unitsPerEm is not 0; with
\* unitsPerEm 0 the division fails and the record is the 'error' record with
\* no stroke width and a reason.
C18_Amended ==
  (StrokeDone /\ MeasuredOutlineFont(ttfont)) =>
    IF ttfont.head.unitsPerEm # 0
      THEN IsStrokeRecordOf(out, ValidMeasurements(ttfont), ttfont.head.unitsPerEm)
      ELSE /\ out.weight_by_stroke = "error"
           /\ out.stroke_width = None /\ out.normalized_stroke_width = None
           /\ HasReason(out)

\* C18 witness: a measurement that is not positive was left out of the
\* average and the normalized value 0.12 sits on a band limit: 'bold'.
C18_Witness ==
  /\ StrokeDone /\ MeasuredOutlineFont(ttfont)
  /\ Len(ValidMeasurements(ttfont)) < Len(ProbeMeasurements(ttfont))
  /\ out.normalized_stroke_width = Rat(12, 100)
  /\ out.weight_by_stroke = "bold"

\* two valid measurements are averaged
C18_AverageReached ==
  /\ StrokeDone /\ MeasuredOutlineFont(ttfont)
  /\ Len(ValidMeasurements(ttfont)) = 2
  /\ out.stroke_width # ValidMeasurements(ttfont)[1]
  /\ out.weight_by_stroke \in Range(StrokeBandLabels)

---------------------------------------------------------------------------
(* C19: the stroke width estimated from the weight class                   *)

\* f has CFF or CFF2 outlines, no glyf table, and an OS/2 table
OutlineLessFont(f) ==
  HasOutlineCFF(f) /\ ~HasTable(f, "glyf") /\ HasTable(f, "OS/2")

\* the inclusive upper limits of the first eight weight-class bands
WeightClassLimits == <<150, 250, 350, 450, 550, 650, 750, 850>>

WeightClassLabels ==
  <<"thin", "extra light", "light", "regular", "medium", "semi bold", "bold",
    "extra bold", "black">>

\* the label of the band of w: the first band whose limit is not below w
WeightClassLabel(w) ==
  WeightClassLabels[1 + Cardinality({i \in DOMAIN WeightClassLimits :
                                       w > WeightClassLimits[i]})]

\* the record r is the estimate for weight class w
IsEstimateOf(r, w, units_per_em) ==
  /\ r.normalized_stroke_width = Rat(w, 9000)
  /\ r.stroke_width = RMul(Rat(w, 9000), RInt(units_per_em))
  /\ r.weight_by_stroke = WeightClassLabel(w)
  /\ Has(r, "is_estimated") /\ r.is_estimated = TRUE

\* C19 as stated: for every CFF or CFF2 font with OS/2 weight class w the
\* record holds w/9000, (w/9000) * unitsPerEm, the label of the nine-band
\* table, and is marked estimated.
C19_Original ==
  (StrokeDone /\ OutlineLessFont(ttfont)) =>
    IsEstimateOf(out, ttfont.OS2.usWeightClass, ttfont.head.unitsPerEm)

\* C19 amended: the same for the CFF or CFF2 fonts that have a head table
\* and whose cmap resolves at least one of H, I, O, n, o, l; when the cmap
\* is missing or empty or resolves none of them, the record is the
\* 'unknown' record with a reason and no estimate.
C19_Amended ==
  (StrokeDone /\ OutlineLessFont(ttfont) /\ HasTable(ttfont, "head")
     /\ HasTable(ttfont, "cmap")) =>
    IF ~CmapFalsy(ttfont) /\ ~NoProbe(ttfont, StrokeSampleChars)
      THEN IsEstimateOf(out, ttfont.OS2.usWeightClass, ttfont.head.unitsPerEm)
      ELSE /\ out.weight_by_stroke = "unknown"
           /\ out.stroke_width = None /\ out.normalized_stroke_width = None
           /\ HasReason(out) /\ ~Has(out, "is_estimated")

\* C19 witness: a CFF2 font of weight class 650, the inclusive limit of
\* 'semi bold', with 2048 units per em
C19_Witness ==
  /\ StrokeDone /\ OutlineLessFont(ttfont)
  /\ HasTable(ttfont, "CFF2")
  /\ ttfont.OS2.usWeightClass = 650
  /\ ttfont.head.unitsPerEm = 2048
  /\ out.normalized_stroke_width = Rat(650, 9000)
  /\ out.stroke_width = Rat(650 * 2048, 9000)
  /\ out.weight_by_stroke = "semi bold"
  /\ out.is_estimated = TRUE

---------------------------------------------------------------------------
(* measure_glyph_stroke_width on its own: one glyph is measured            *)

\* widths and heights of the boxes: 0, and values on both sides of
\* width = 0.4 * height (280, 700) and of height = 5 * width (140, 700)
BoxSizes == {0, 100, 139, 140, 279, 280, 500, 700}

\* an ellipse-like contour of four points with the half axes a and b
Lozenge(a, b) == <<<<a, 0>>, <<0, b>>, <<-a, 0>>, <<0, -b>>>>

\* half axes of the outer contour of a ring: aspect ratios 0.8, 0.82, 1,
\* 1.18, 1.2 and 1.4
RingAxes ==
  {<<400, 500>>, <<410, 500>>, <<500, 500>>, <<590, 500>>, <<600, 500>>, <<700, 500>>}

\* k stems of width 30, 50 apart
RECURSIVE Stems(_)
Stems(k) ==
  IF k = 0 THEN <<>>
  ELSE Stems(k - 1) \o <<OnCurve(Rect(50 * (k - 1), 0, 50 * (k - 1) + 30, 700))>>

MeasuredGlyphs ==
  { MakeGlyph(<<OnCurve(Rect(0, 0, w, h))>>) : w \in BoxSizes, h \in BoxSizes }
  \cup { MakeGlyph(<<OnCurve(Lozenge(r[1], r[2])),
                     OnCurve(Lozenge(r[1] - 100, r[2] - 60))>>) : r \in RingAxes }
  \cup { MakeGlyph(Stems(k)) : k \in {2, 3} }
  \cup { MakeGlyph(<<OnCurve(Lozenge(500, 500)), OnCurve(Lozenge(400, 440)),
                     OnCurve(Lozenge(200, 200))>>),
         [numberOfContours |-> 0] }

InitGlyph ==
  /\ ttfont \in { [glyph |-> g] : g \in MeasuredGlyphs }
  /\ info = NoInfo
  /\ pc = "start"
  /\ op = "none"
  /\ out = NoResult

MeasureGlyphStrokeWidth ==
  /\ pc = "start"
  /\ Returns("measure_glyph_stroke_width", Ret(measure_glyph_stroke_width(ttfont.glyph)))

NextGlyph == MeasureGlyphStrokeWidth

SpecGlyph == InitGlyph /\ [][NextGlyph]_vars

---------------------------------------------------------------------------
(* C20: one measurement strategy per glyph                                 *)

GlyphDone == Done("measure_glyph_stroke_width")

\* the glyph has no point, or its bounding box has no width or no height
ZeroExtent(g) == ~HasCoordinates(g) \/ BoxWidth(g) = 0 \/ BoxHeight(g) = 0

\* one contour, width < 0.4 * height
TallAndNarrow(g) == g.numberOfContours = 1 /\ 10 * BoxWidth(g) < 4 * BoxHeight(g)

\* one contour, height < 0.4 * width
WideAndShort(g) == g.numberOfContours = 1 /\ 10 * BoxHeight(g) < 4 * BoxWidth(g)

\* two contours, 0.8 < width / height < 1.2
RoundWithCounter(g) ==
  /\ g.numberOfContours = 2
  /\ 8 * BoxHeight(g) < 10 * BoxWidth(g)
  /\ 10 * BoxWidth(g) < 12 * BoxHeight(g)

\* C20: a glyph with zero width or height (or no point) gives no value;
\* otherwise exactly one strategy applies: a 1-contour glyph with
\* width < 0.4 * height gives 0.85 * width, or the raw width when
\* height > 5 * width; a 1-contour glyph with height < 0.4 * width gives
\* 0.85 * height; a 2-contour glyph with aspect ratio strictly between 0.8
\* and 1.2 gives the circular radius difference; every other glyph gives
\* the value of the complex method.
C20_OneStrategy ==
  GlyphDone =>
    LET g == ttfont.glyph
    IN  IF ZeroExtent(g) THEN out.ret = None
        ELSE /\ Cardinality({s \in {"vertical", "horizontal", "circular"} :
                               \/ s = "vertical" /\ TallAndNarrow(g)
                               \/ s = "horizontal" /\ WideAndShort(g)
                               \/ s = "circular" /\ RoundWithCounter(g)}) <= 1
             /\ TallAndNarrow(g) =>
                  out.ret = IF BoxHeight(g) > 5 * BoxWidth(g) THEN RInt(BoxWidth(g))
                            ELSE Rat(85 * BoxWidth(g), 100)
             /\ WideAndShort(g) => out.ret = Rat(85 * BoxHeight(g), 100)
             /\ RoundWithCounter(g) =>
                  out.ret = measure_circular_glyph_stroke_width(g, g.coordinates, g.flags)
             /\ (~TallAndNarrow(g) /\ ~WideAndShort(g) /\ ~RoundWithCounter(g)) =>
                  out.ret = measure_complex_glyph_stroke_width(g, g.coordinates, g.flags)

\* C20 witness: a 2-contour glyph of aspect ratio exactly 0.8 is measured by
\* the complex method (60), not as a circular glyph (80).
C20_Witness ==
  /\ GlyphDone
  /\ ~ZeroExtent(ttfont.glyph)
  /\ ttfont.glyph.numberOfContours = 2
  /\ 10 * BoxWidth(ttfont.glyph) = 8 * BoxHeight(ttfont.glyph)
  /\ measure_circular_glyph_stroke_width(ttfont.glyph, ttfont.glyph.coordinates,
                                         ttfont.glyph.flags) = RInt(80)
  /\ out.ret = RInt(60)

\* the other strategies are taken as well
C20_VerticalRaw ==
  GlyphDone /\ ~ZeroExtent(ttfont.glyph) /\ BoxWidth(ttfont.glyph) = 139 /\ BoxHeight(ttfont.glyph) = 700
    /\ out.ret = RInt(139)

C20_VerticalCorrected ==
  GlyphDone /\ ~ZeroExtent(ttfont.glyph) /\ BoxWidth(ttfont.glyph) = 140 /\ BoxHeight(ttfont.glyph) = 700
    /\ out.ret = Rat(119, 1)

C20_Horizontal ==
  GlyphDone /\ ~ZeroExtent(ttfont.glyph) /\ BoxWidth(ttfont.glyph) = 700 /\ BoxHeight(ttfont.glyph) = 279
    /\ ttfont.glyph.numberOfContours = 1 /\ out.ret = Rat(23715, 100)

C20_Circular ==
  GlyphDone /\ RoundWithCounter(ttfont.glyph) /\ out.ret = RInt(80)

C20_ThreeStems ==
  GlyphDone /\ ~ZeroExtent(ttfont.glyph) /\ ttfont.glyph.numberOfContours = 3
    /\ 10 * BoxWidth(ttfont.glyph) < 4 * BoxHeight(ttfont.glyph)
    /\ out.ret = RInt(20)

---------------------------------------------------------------------------
(* measure_complex_glyph_stroke_width on its own                           *)

\* a comb of five teeth (20 on-curve points, stems 100 apart) followed by
\* eight points 10 apart below its first point
CombWithTail ==
  Comb(5, 100, 700) \o [i \in 1..8 |-> <<0, -10 * i>>]

\* three on-curve points, with k off-curve points between the last two
Triangle(w, h, k) ==
  [coordinates |-> <<<<0, 0>>, <<w, 0>>>> \o [i \in 1..k |-> <<w + 10 * i, h>>]
                   \o <<<<0, h>>>>,
   flags       |-> <<1, 1>> \o [i \in 1..k |-> 0] \o <<1>>]

ComplexGlyphs ==
  { g \in MeasuredGlyphs : HasCoordinates(g) }
  \cup { MakeGlyph(<<OnCurve(Comb(k, s, 700))>>) : k \in 1..6, s \in {30, 60, 100} }
  \cup { MakeGlyph(<<Triangle(w, h, k)>>) : w \in {0, 300}, h \in {0, 400, 700}, k \in 0..2 }
  \cup { MakeGlyph(<<OnCurve(CombWithTail)>>), MakeGlyph(<<Blob>>),
         MakeGlyph(<<Rect5Curved(500, 700)>>),
         MakeGlyph(<<OnCurve(Rect(0, 0, 300, 400)), Triangle(300, 400, 1)>>) }

InitComplex ==
  /\ ttfont \in { [glyph |-> g] : g \in ComplexGlyphs }
  /\ info = NoInfo
  /\ pc = "start"
  /\ op = "none"
  /\ out = NoResult

MeasureComplexGlyphStrokeWidth ==
  /\ pc = "start"
  /\ Returns("measure_complex_glyph_stroke_width",
             Ret(measure_complex_glyph_stroke_width(ttfont.glyph, ttfont.glyph.coordinates,
                                                    ttfont.glyph.flags)))

NextComplex == MeasureComplexGlyphStrokeWidth

SpecComplex == InitComplex /\ [][NextComplex]_vars

---------------------------------------------------------------------------
(* C21: the complex method returns the lower quartile of the minima        *)

ComplexDone == Done("measure_complex_glyph_stroke_width")

\* the on-curve points of the glyph, in the order of the outline
OnCurvePoints(g) ==
  LET on == SelectSeq([i \in DOMAIN g.flags |-> i], LAMBDA i : g.flags[i] = 1)
  IN  [k \in DOMAIN on |-> g.coordinates[on[k]]]

\* the first min(20, n) of them
Sampled(g) ==
  LET pts == OnCurvePoints(g)
  IN  [k \in 1..(IF Len(pts) < 20 THEN Len(pts) ELSE 20) |-> pts[k]]

\* the squared distances from point i of the sample to the points of the
\* sample that are neither point i nor next to it in the sample
FarSqDists(pts, i) ==
  { SqDist(pts[i], pts[j]) : j \in DOMAIN pts \ {i - 1, i, i + 1} }

\* d is the minimum of point i
IsMinimumOf(d, pts, i) ==
  d \in FarSqDists(pts, i) /\ \A e \in FarSqDists(pts, i) : d <= e

\* v is the element at index q (from 0) of the ascending list of the values
\* that m gives to the members of idx
IsAtSortedIndex(v, m, idx, q) ==
  /\ Cardinality({i \in idx : m[i] < v}) <= q
  /\ Cardinality({i \in idx : m[i] <= v}) > q

\* C21: for a glyph with at least 4 on-curve points the complex method takes
\* the first min(20, n) on-curve points, finds for each the minimum distance
\* to a sampled point that is neither itself nor next to it in the sample,
\* and returns the element at index floor(count / 4) of the sorted minima
\* (the first element when there are fewer than 3 minima); with fewer than 4
\* on-curve points, or without any minimum, it returns the estimate from the
\* area and the perimeter of the bounding box.
C21_LowerQuartile ==
  ComplexDone =>
    LET g    == ttfont.glyph
        pts  == Sampled(g)
        have == {i \in DOMAIN pts : FarSqDists(pts, i) # {}}
        m    == [i \in have |-> CHOOSE d \in FarSqDists(pts, i) : IsMinimumOf(d, pts, i)]
        q    == IF Cardinality(have) >= 3 THEN Cardinality(have) \div 4 ELSE 0
    IN  IF Len(OnCurvePoints(g)) < 4 \/ have = {}
          THEN out.ret = measure_area_perimeter_stroke_width(g, None, None)
          ELSE /\ out.ret # None
               /\ out.ret[2] = 1
               /\ out.ret[1] >= 0
               /\ IsAtSortedIndex(out.ret[1] * out.ret[1], m, have, q)

\* C21 witness: of 28 on-curve points the first 20 are sampled: the result is
\* the distance 100 of the stems of the comb, not the distance 20 of the
\* points of the tail.
C21_Witness ==
  /\ ComplexDone
  /\ Len(OnCurvePoints(ttfont.glyph)) = 28
  /\ out.ret = RInt(100)

\* a glyph with 3 on-curve points and 2 off-curve points gets the estimate
\* from the bounding box (320 by 400, one contour)
C21_FallbackReached ==
  /\ ComplexDone
  /\ Len(OnCurvePoints(ttfont.glyph)) = 3
  /\ Len(ttfont.glyph.coordinates) = 5
  /\ BoxWidth(ttfont.glyph) = 320 /\ BoxHeight(ttfont.glyph) = 400
  /\ out.ret = RMul(Rat(2 * 320 * 400, 2 * (320 + 400)), Rat(3, 10))

\* off-curve points are not sampled: the blob has 4 on-curve points among 12
C21_OffCurveSkipped ==
  /\ ComplexDone
  /\ Len(ttfont.glyph.coordinates) = 12
  /\ Len(OnCurvePoints(ttfont.glyph)) = 4
  /\ out.ret = RInt(500)

---------------------------------------------------------------------------
(* analyze_glyph_shapes on its own                                         *)

\* a rectangle with e more on-curve points on its lower side and k off-curve
\* points above its upper side: 4 + e on-curve points whose turns add up to
\* 360 degrees
Polyline(e, k) ==
  [coordinates |-> <<<<0, 0>>>> \o [i \in 1..e |-> <<100 * i, 0>>]
                   \o <<<<100 * (e + 1), 0>>, <<100 * (e + 1), 700>>>>
                   \o [i \in 1..k |-> <<100 * (e + 1) - 10 * i, 720>>]
                   \o <<<<0, 700>>>>,
   flags       |-> [i \in 1..(e + 3) |-> 1] \o [i \in 1..k |-> 0] \o <<1>>]

\* an outline font whose probes 'a', 'o', ... are the glyphs of the list
ShapeFont(glyphs) ==
  LET chars == SubSeq(ShapeSampleChars, 1, Len(glyphs))
  IN  [MakeFont("glyf", {}, <<[c \in Range(chars) |-> c]>>, PlainProfile, 400)
         EXCEPT !.glyf = [c \in Range(chars) |->
                            glyphs[CHOOSE i \in DOMAIN chars : chars[i] = c]]]

\* average turns of 90, 72, 60 and 36 degrees; curve ratios from 0 to above
\* 1.5 with 0.3, 0.6, 1.0 and 1.5 among them
ShapeFonts ==
  { ShapeFont(<<MakeGlyph(<<Polyline(e, k)>>)>>) : e \in {0, 1, 2, 6}, k \in 0..17 }
  \cup { ShapeFont(<<MakeGlyph(<<Polyline(0, 6)>>), MakeGlyph(<<Polyline(6, k)>>)>>) :
           k \in {0, 9} }
  \cup { ShapeFont(<<[numberOfContours |-> 0]>>),
         ShapeFont(<<[numberOfContours |-> 0], MakeGlyph(<<Polyline(1, 3)>>)>>),
         ShapeFont(<<>>),
         [ShapeFont(<<MakeGlyph(<<Polyline(0, 0)>>)>>) EXCEPT !.cmap = CmapNone],
         MakeFont("glyf", {"cmap"}, CmapNone, PlainProfile, 400) }

InitShape ==
  /\ ttfont \in ShapeFonts
  /\ info = NoInfo
  /\ pc = "start"
  /\ op = "none"
  /\ out = NoResult

NextShape == AnalyzeGlyphShapes

SpecShape == InitShape /\ [][NextShape]_vars

---------------------------------------------------------------------------
(* C22: five bands of the curve ratio, one band less above 60 degrees      *)

ShapeDone == Done("analyze_glyph_shapes")

\* from 'angular' to 'very curvy'
ShapeBands ==
  <<"angular", "slightly curvy", "moderately curvy", "curvy", "very curvy">>

\* the number of the limits 0.3, 0.6, 1.0 and 1.5 that off / on exceeds
RatioBandIndex(off, on) ==
  1 + Cardinality({l \in {3, 6, 10, 15} : 10 * off > l * on})

\* the probe glyphs of the font yield at least one on-curve point
ShapeProbesCounted(f) ==
  /\ HasTable(f, "cmap") /\ ~CmapFalsy(f)
  /\ ProbeGlyphNames(f, ShapeSampleChars) # <<>>
  /\ ShapeTotals(f, ProbeGlyphNames(f, ShapeSampleChars)).straight_segments > 0

\* the type the claim gives for the totals of the probe glyphs
ClaimedShapeType(t) ==
  LET band == RatioBandIndex(t.curve_segments, t.straight_segments)
  IN  IF t.total_angle_changes > 60 * t.straight_segments
        THEN ShapeBands[IF band > 1 THEN band - 1 ELSE 1]
        ELSE ShapeBands[band]

\* C22 as stated: for every outline-bearing font analyze_glyph_shapes returns
\* the band of curve_ratio = total off-curve / total on-curve points
\* (> 1.5 very curvy, > 1.0 curvy, > 0.6 moderately curvy, > 0.3 slightly
\* curvy, else angular), moved one band toward 'angular' when the average
\* turn angle per on-curve point exceeds 60 degrees.
C22_Original ==
  (ShapeDone /\ HasTable(ttfont, "glyf")) =>
    /\ out.type \in Range(ShapeBands)
    /\ ShapeProbesCounted(ttfont) =>
         out.type = ClaimedShapeType(ShapeTotals(ttfont,
                                       ProbeGlyphNames(ttfont, ShapeSampleChars)))

\* C22 amended: the same for an outline-bearing font whose probe glyphs yield
\* at least one on-curve point; without a cmap, without a probe glyph or
\* without any on-curve point the type is 'unknown' with a reason.
C22_Amended ==
  (ShapeDone /\ HasTable(ttfont, "glyf")) =>
    IF ShapeProbesCounted(ttfont)
      THEN /\ out.type = ClaimedShapeType(ShapeTotals(ttfont,
                                            ProbeGlyphNames(ttfont, ShapeSampleChars)))
           /\ out.curve_to_straight_ratio =
                LET t == ShapeTotals(ttfont, ProbeGlyphNames(ttfont, ShapeSampleChars))
                IN  Rat(t.curve_segments, t.straight_segments)
      ELSE out.type = "unknown" /\ HasReason(out)

\* C22 witness: 7 off-curve and 4 on-curve points (ratio 1.75, 'very curvy')
\* with an average turn of 90 degrees give 'curvy'.
C22_Witness ==
  /\ ShapeDone
  /\ ShapeProbesCounted(ttfont)
  /\ out.curve_to_straight_ratio = Rat(7, 4)
  /\ out.average_angle_change = RInt(90)
  /\ out.type = "curvy"

\* an average turn of exactly 60 degrees leaves the band: ratio 10/6 stays
\* 'very curvy'
C22_SixtyUnchanged ==
  /\ ShapeDone /\ ShapeProbesCounted(ttfont)
  /\ out.curve_to_straight_ratio = Rat(10, 6)
  /\ out.average_angle_change = RInt(60)
  /\ out.type = "very curvy"

\* the totals are taken over all probe glyphs: 6 off-curve of 14 points in
\* two glyphs with the curve ratios 1.5 and 0
C22_TotalsOverGlyphs ==
  /\ ShapeDone /\ ShapeProbesCounted(ttfont)
  /\ Len(ProbeGlyphNames(ttfont, ShapeSampleChars)) = 2
  /\ out.curve_to_straight_ratio = Rat(6, 14)
  /\ out.type = "slightly curvy"

\* every band is returned both unchanged and after a shift
C22_BandsReached ==
  /\ ShapeDone /\ ShapeProbesCounted(ttfont)
  /\ out.type = "angular"
  /\ out.curve_to_straight_ratio = Rat(3, 5)
  /\ out.average_angle_change = RInt(72)

---------------------------------------------------------------------------
(* analyze_vertical_metrics on its own                                     *)

\* OS/2 sxHeight: absent, 0, and values on both sides of 0.65 and 0.75 of
\* the cap height 700
XHeightScalars == {<<>>, <<0>>, <<454>>, <<455>>, <<524>>, <<525>>}

CapHeightScalars == {<<>>, <<0>>, <<700>>}

\* the height of the glyph of 'x': no glyph, a flat glyph, or a box
XGlyphHeights == {<<>>, <<0>>, <<454>>, <<525>>}

HGlyphHeights == {<<>>, <<0>>, <<700>>}

\* sTypoAscender and sTypoDescender
TypoMetrics == {<<700, -300>>, <<0, 0>>}

VerticalFont(sx, cap, xh, hh, ad, upm) ==
  LET chars == (IF xh # None THEN {"x"} ELSE {}) \cup (IF hh # None THEN {"H"} ELSE {})
      p == Profile(<<"Helvetica">>, <<0, 0, 0>>, 0, 0, <<>>, 5,
                   <<<<600, 80>>, <<500, 60>>>>, sx, cap, ad[1], ad[2], upm)
  IN  [MakeFont("glyf", {}, <<[c \in chars |-> c]>>, p, 400)
         EXCEPT !.glyf = [c \in chars |->
                            MakeGlyph(<<OnCurve(Rect(0, 0, 300,
                                                     IF c = "x" THEN xh[1] ELSE hh[1]))>>)]]

VerticalFonts ==
  { VerticalFont(sx, cap, xh, hh, ad, 1000) :
      sx \in XHeightScalars, cap \in CapHeightScalars,
      xh \in XGlyphHeights, hh \in HGlyphHeights, ad \in TypoMetrics }
  \cup { VerticalFont(<<525>>, <<700>>, <<>>, <<>>, <<700, -300>>, 0),
         MakeFont("CFF ", {}, CmapLatin, PlainProfile, 400),
         MakeFont("glyf", {"hhea"}, CmapLatin, PlainProfile, 400),
         MakeFont("glyf", {"cmap"}, CmapNone, PlainProfile, 400) }

InitVertical ==
  /\ ttfont \in VerticalFonts
  /\ info = NoInfo
  /\ pc = "start"
  /\ op = "none"
  /\ out = NoResult

NextVertical == AnalyzeVerticalMetrics

SpecVertical == InitVertical /\ [][NextVertical]_vars

---------------------------------------------------------------------------
(* C23: x-height and cap height, their ratio and the x-height class        *)

VerticalDone == Done("analyze_vertical_metrics")

\* the bounding-box height of the glyph of char, when the cmap resolves char
\* to a glyph with points of a height that is not 0
MeasuredHeight(f, char) ==
  IF /\ HasTable(f, "cmap") /\ f.cmap # None
     /\ char \in DOMAIN f.cmap[1]
     /\ f.cmap[1][char] \in DOMAIN f.glyf
     /\ HasCoordinates(f.glyf[f.cmap[1][char]])
     /\ BoxHeight(f.glyf[f.cmap[1][char]]) # 0
    THEN <<BoxHeight(f.glyf[f.cmap[1][char]])>>
    ELSE None

\* the OS/2 scalar when it is present and > 0, otherwise the measured height
AvailableHeight(f, field, char) ==
  IF HasTable(f, "OS/2") /\ Has(f.OS2, field) /\ f.OS2[field] > 0
    THEN <<f.OS2[field]>>
  ELSE IF HasTable(f, "glyf") THEN MeasuredHeight(f, char)
  ELSE None

\* the x_height, cap_height, x_to_cap_ratio and x_height_class of the record
\* r are those that the heights x and cap (None when unavailable) call for
HeightsAsClaimed(r, x, cap) ==
  IF x # None /\ cap # None /\ cap[1] > 0
    THEN /\ Has(r, "x_height") /\ r.x_height = x[1]
         /\ Has(r, "cap_height") /\ r.cap_height = cap[1]
         /\ Has(r, "x_to_cap_ratio") /\ r.x_to_cap_ratio = Rat(x[1], cap[1])
         /\ Has(r, "x_height_class")
         /\ r.x_height_class = IF 100 * x[1] < 65 * cap[1] THEN "small"
                               ELSE IF 100 * x[1] < 75 * cap[1] THEN "medium"
                               ELSE "large"
    ELSE ~Has(r, "x_height_class")

\* the tables without which the analyser returns its error record at once
RequiredTablesPresent(f) == {"glyf", "head", "hhea", "OS/2"} \subseteq f.tables

\* C23 as stated, for a font that has the required tables:
\* analyze_vertical_metrics uses the OS/2 x-height and cap-height scalars
\* whenever they are present and > 0, otherwise the bounding-box heights of
\* the glyphs 'x' and 'H'; whenever both heights are available (and the cap
\* height > 0) the record holds x_to_cap_ratio = x_height / cap_height and
\* the x_height_class small (< 0.65), medium (< 0.75) or large; when a height
\* is unavailable there is no x_height_class.
C23_Original ==
  (VerticalDone /\ RequiredTablesPresent(ttfont)) =>
    HeightsAsClaimed(out, AvailableHeight(ttfont, "sxHeight", "x"),
                     AvailableHeight(ttfont, "sCapHeight", "H"))

\* the same holds when no division by units-per-em or by
\* ascender - descender fails
C23_WithSoundMetrics ==
  (/\ VerticalDone
   /\ RequiredTablesPresent(ttfont)
   /\ ttfont.head.unitsPerEm # 0
   /\ ttfont.OS2.sTypoAscender # ttfont.OS2.sTypoDescender) =>
    HeightsAsClaimed(out, AvailableHeight(ttfont, "sxHeight", "x"),
                     AvailableHeight(ttfont, "sCapHeight", "H"))

\* sxHeight 0 and no sCapHeight: the heights 454 and 700 of the glyphs 'x'
\* and 'H' give the class 'small'
C23_MeasuredReached ==
  /\ VerticalDone
  /\ Has(ttfont.OS2, "sxHeight") /\ ttfont.OS2.sxHeight = 0
  /\ ~Has(ttfont.OS2, "sCapHeight")
  /\ Has(out, "x_height_class")
  /\ out.x_height = 454 /\ out.cap_height = 700
  /\ out.x_height_class = "small"

\* sxHeight 455 of sCapHeight 700 is the ratio 0.65: 'medium'
C23_ScalarsReached ==
  /\ VerticalDone
  /\ Has(out, "x_height_class")
  /\ out.x_to_cap_ratio = Rat(65, 100)
  /\ out.x_height_class = "medium"
  /\ MeasuredHeight(ttfont, "x") = <<525>>

\* sxHeight 524 and sCapHeight 700 with sTypoAscender = sTypoDescender = 0:
\* the record holds the error of the division alone
C23_ZeroTotalHeight ==
  /\ VerticalDone
  /\ RequiredTablesPresent(ttfont)
  /\ Has(ttfont.OS2, "sxHeight") /\ ttfont.OS2.sxHeight = 524
  /\ Has(ttfont.OS2, "sCapHeight") /\ ttfont.OS2.sCapHeight = 700
  /\ ttfont.OS2.sTypoAscender = 0 /\ ttfont.OS2.sTypoDescender = 0
  /\ ttfont.head.unitsPerEm = 1000
  /\ DOMAIN out = {"error"}

---------------------------------------------------------------------------
(* analyze_stroke_contrast on its own                                      *)

\* widths of the glyph of 'B' or 'D', 200 high: 0.2 * width against
\* 0.1 * height gives the ratios 2, 1, 1.09, 1.1, 1.49, 1.5, 2.49, 2.5, 3,
\* 3.99, 4 and 5
BowlWidths == {50, 100, 109, 110, 149, 150, 249, 250, 300, 399, 400, 500}

Bowl(w) == MakeGlyph(<<OnCurve(Rect(0, 0, w, 200))>>)

\* a font with the outline table (or none) whose cmap resolves exactly the
\* characters of probes, each to the glyph that probes gives
ContrastFont(p, outline, probes) ==
  [MakeFont(outline, {}, <<[c \in DOMAIN probes |-> c]>>, p, 400)
     EXCEPT !.glyf = IF outline = "glyf" THEN probes ELSE EmptyDict]

\* serif, sans-serif, script and decorative by their names
ContrastProfiles ==
  { p \in Profiles :
      p.family \in {<<"Noto Serif">>, <<"Roboto Sans">>, <<"Brush Script">>,
                    <<"Art Deco Display">>} }

\* probes that resolve without giving a ratio: a round glyph of one contour,
\* an empty glyph, a glyph without height; and a cmap without any probe
RatiolessProbes ==
  { [c \in {"O"} |-> Bowl(300)],
    [c \in {"B"} |-> [numberOfContours |-> 0]],
    [c \in {"D", "o"} |-> MakeGlyph(<<OnCurve(Rect(0, 0, 300, 0))>>)],
    [c \in {"?"} |-> Bowl(300)] }

ContrastFonts ==
  { ContrastFont(PlainProfile, "glyf", [c \in {"B"} |-> Bowl(w)]) : w \in BowlWidths }
  \cup { ContrastFont(PlainProfile, "glyf",
                      [c \in {"B", "D"} |-> IF c = "B" THEN Bowl(w1) ELSE Bowl(w2)]) :
           w1 \in BowlWidths, w2 \in BowlWidths }
  \cup { ContrastFont(PlainProfile, "glyf",
                      [c \in {"O", "o"} |->
                         IF c = "O"
                           THEN MakeGlyph(<<OnCurve(Lozenge(r[1], r[2])),
                                            OnCurve(Lozenge(r[1] - 100, r[2] - 60))>>)
                           ELSE Bowl(300)]) : r \in RingAxes }
  \cup { ContrastFont(p, o, probes) :
           p \in ContrastProfiles, o \in {"glyf", "CFF ", "none"},
           probes \in RatiolessProbes }

InitContrast ==
  /\ ttfont \in ContrastFonts
  /\ info = NoInfo
  /\ pc = "start"
  /\ op = "none"
  /\ out = NoResult

NextContrast == AnalyzeStrokeContrast

SpecContrast == InitContrast /\ [][NextContrast]_vars

---------------------------------------------------------------------------
(* C24: the bands of the average contrast ratio                            *)

ContrastDone == Done("analyze_stroke_contrast")

\* the max/min ratios of the probe glyphs of an outline font
ProbeRatios(f) ==
  ContrastRatios(f, Measurable(f, ProbeGlyphNames(f, ContrastSampleChars)))

\* an outline font in which at least one probe glyph yields a ratio
YieldsRatio(f) ==
  /\ HasTable(f, "glyf") /\ HasTable(f, "cmap") /\ f.cmap # None
  /\ ProbeRatios(f) # <<>>

\* the average ratio n / d is in the band of the label
InContrastBand(n, d, label) ==
  CASE label = "monoline"         -> 10 * n < 11 * d
    [] label = "low contrast"     -> 10 * n >= 11 * d /\ 10 * n < 15 * d
    [] label = "medium contrast"  -> 10 * n >= 15 * d /\ 10 * n < 25 * d
    [] label = "high contrast"    -> 10 * n >= 25 * d /\ n < 4 * d
    [] label = "extreme contrast" -> n >= 4 * d
    [] OTHER -> FALSE

\* the record holds the average of the ratios and the label of its band
IsContrastRecordOf(r, ratios) ==
  LET avg == RDiv(RSum(ratios), RInt(Len(ratios)))
  IN  /\ r.contrast_ratio = avg
      /\ InContrastBand(avg[1], avg[2], r.contrast_type)

\* C24: for an outline-bearing font in which at least one probe glyph yields
\* a ratio, the record holds the average r of the per-glyph max/min ratios
\* and the label monoline (r < 1.1), low contrast (r < 1.5), medium contrast
\* (r < 2.5), high contrast (r < 4.0) or extreme contrast (otherwise).
C24_Original ==
  (ContrastDone /\ YieldsRatio(ttfont)) => IsContrastRecordOf(out, ProbeRatios(ttfont))

\* below 2.5 the record is as claimed
C24_BelowHigh ==
  (/\ ContrastDone /\ YieldsRatio(ttfont)
   /\ RLt(RDiv(RSum(ProbeRatios(ttfont)), RInt(Len(ProbeRatios(ttfont)))), Rat(25, 10))) =>
    IsContrastRecordOf(out, ProbeRatios(ttfont))

\* the ratios 1 and 2 of 'B' and 'D' average to 1.5: 'medium contrast'
C24_AverageReached ==
  /\ ContrastDone /\ YieldsRatio(ttfont)
  /\ ProbeRatios(ttfont) = <<RInt(1), RInt(2)>>
  /\ out.contrast_ratio = Rat(3, 2)
  /\ out.contrast_type = "medium contrast"
  /\ out.sample_size = 2

\* a 'B' 300 wide and 200 high has the ratio 3: 'extreme contrast'
C24_HighMislabelled ==
  /\ ContrastDone /\ YieldsRatio(ttfont)
  /\ ProbeRatios(ttfont) = <<RInt(3)>>
  /\ out.contrast_ratio = RInt(3)
  /\ out.contrast_type = "extreme contrast"

\* a 'B' 500 wide and 200 high has the ratio 5: the 'error' record
C24_ExtremeRaises ==
  /\ ContrastDone /\ YieldsRatio(ttfont)
  /\ ProbeRatios(ttfont) = <<RInt(5)>>
  /\ out.contrast_ratio = None
  /\ out.contrast_type = "error"

---------------------------------------------------------------------------
(* C25: the style-keyed estimate                                           *)

\* the constant the claim gives for the style
ClaimedContrastOfStyle(style) ==
  CASE style = "serif"      -> <<Rat(25, 10), "medium contrast">>
    [] style = "sans-serif" -> <<Rat(12, 10), "low contrast">>
    [] style = "script"     -> <<Rat(20, 10), "medium contrast">>
    [] OTHER                -> <<Rat(15, 10), "low contrast">>

IsStyleEstimate(r, style) ==
  /\ r.contrast_ratio = ClaimedContrastOfStyle(style)[1]
  /\ r.contrast_type = ClaimedContrastOfStyle(style)[2]
  /\ Has(r, "estimated") /\ r.estimated = TRUE

\* C25: when no probe glyph yields a contrast ratio, and for every
\* outline-less font, the record is the constant of the style marked as
\* estimated: serif 2.5 / medium contrast, sans-serif 1.2 / low contrast,
\* script 2.0 / medium contrast, any other style 1.5 / low contrast.
C25_Original ==
  (ContrastDone /\ ~YieldsRatio(ttfont)) =>
    IsStyleEstimate(out, determine_font_style(ttfont))

\* an outline font whose cmap resolves a probe, none of which yields a
\* ratio, gets the estimate
C25_OutlineFallback ==
  (/\ ContrastDone /\ ~YieldsRatio(ttfont)
   /\ HasTable(ttfont, "glyf")
   /\ ProbeGlyphNames(ttfont, ContrastSampleChars) # <<>>) =>
    IsStyleEstimate(out, determine_font_style(ttfont))

\* the four rows of the table are returned
C25_SerifReached ==
  /\ ContrastDone /\ HasTable(ttfont, "glyf")
  /\ determine_font_style(ttfont) = "serif"
  /\ out = [contrast_ratio |-> Rat(25, 10), contrast_type |-> "medium contrast",
            estimated |-> TRUE]

C25_ScriptReached ==
  /\ ContrastDone /\ HasTable(ttfont, "glyf")
  /\ determine_font_style(ttfont) = "script"
  /\ out = [contrast_ratio |-> RInt(2), contrast_type |-> "medium contrast",
            estimated |-> TRUE]

C25_OtherReached ==
  /\ ContrastDone /\ HasTable(ttfont, "glyf")
  /\ determine_font_style(ttfont) = "decorative"
  /\ out = [contrast_ratio |-> Rat(15, 10), contrast_type |-> "low contrast",
            estimated |-> TRUE]

\* a serif font with a CFF table gets the 'unknown' record
C25_OutlineLessUnknown ==
  /\ ContrastDone /\ HasTable(ttfont, "CFF ")
  /\ determine_font_style(ttfont) = "serif"
  /\ out = [contrast_ratio |-> None, contrast_type |-> "unknown",
            reason |-> "No glyf table"]

---------------------------------------------------------------------------
(* generate_emotional_description on its own                               *)

\* trait values -2, -1.5, -1, -0.5, 0.5, 1, 1.5 and 2
NonZeroValues == {-H(2), -3 * Half, -H(1), -Half, Half, H(1), 3 * Half, H(2)}

\* personality dicts with at most two traits that are not 0, with three, and
\* with all eleven at the same value
DescribedTraits ==
  { [t \in Range(TraitNames) |-> IF t = a THEN v ELSE IF t = b THEN w ELSE 0] :
      a \in Range(TraitNames), b \in Range(TraitNames),
      v \in NonZeroValues \cup {0}, w \in NonZeroValues \cup {0} }
  \cup { [t \in Range(TraitNames) |->
            IF t \in {"formality", "playfulness", "dynamism"} THEN v ELSE 0] :
           v \in NonZeroValues }
  \cup { [t \in Range(TraitNames) |-> v] : v \in NonZeroValues }

InitDescription ==
  /\ ttfont = NoFont
  /\ info \in DescribedTraits
  /\ pc = "start"
  /\ op = "none"
  /\ out = NoResult

GenerateEmotionalDescription ==
  /\ pc = "start"
  /\ Returns("generate_emotional_description", Ret(generate_emotional_description(info)))

NextDescription == GenerateEmotionalDescription

SpecDescription == InitDescription /\ [][NextDescription]_vars

---------------------------------------------------------------------------
(* C26: one phrase per trait that is not 0                                 *)

DescriptionDone == Done("generate_emotional_description")

\* the traits of the dict that are not 0, in the order of declaration
NonZeroTraits(personality) == SelectSeq(TraitNames, LAMBDA t : personality[t] # 0)

\* the phrase the claim gives for a value that is not 0
ClaimedPhrase(trait, value) ==
  CASE value > H(1)                   -> Phrase(trait, "strong")
    [] 0 < value /\ value <= H(1)     -> Phrase(trait, "mild")
    [] value < -H(1)                  -> Phrase(trait, "strong_neg")
    [] -H(1) <= value /\ value < 0    -> Phrase(trait, "mild_neg")

\* C26: the description holds exactly one phrase for every trait whose value
\* is not 0 ('strong' for value > 1, 'mild' for 0 < value <= 1, 'strong
\* negative' for value < -1, 'mild negative' for -1 <= value < 0), in
\* the order in which the traits are declared, joined into one sentence that
\* starts with 'This font'; it is the default neutral sentence if and only if
\* every trait is exactly 0.
C26_OnePhrasePerTrait ==
  DescriptionDone =>
    LET nz == NonZeroTraits(info)
        n  == Len(nz)
        s  == out.ret
    IN  /\ (s = NeutralSentence) <=> (n = 0)
        /\ n > 0 =>
             /\ Len(s) = 2 * n + 1
             /\ s[1] = "This font "
             /\ s[2 * n + 1] = "."
             /\ \A i \in 1..n : s[2 * i] = ClaimedPhrase(nz[i], info[nz[i]])
             /\ \A i \in 1..(n - 1) : s[2 * i + 1] \in {", ", " and ", ", and "}

\* C26 witness: formality 1 and strength -1 give the mild phrase and the mild
\* negative phrase, in this order.
C26_Witness ==
  /\ DescriptionDone
  /\ info["formality"] = H(1) /\ info["strength"] = -H(1)
  /\ out.ret = <<"This font ", "has a somewhat formal character", " and ",
                 "has a somewhat gentle character", ".">>

\* all eleven traits at 2: eleven strong phrases
C26_ElevenPhrases ==
  /\ DescriptionDone
  /\ \A t \in Range(TraitNames) : info[t] = H(2)
  /\ Len(out.ret) = 23
  /\ out.ret[20] = "conveys a warm and inviting atmosphere"
  /\ out.ret[21] = ", and "
  /\ out.ret[22] = "conveys energy and movement"

C26_NeutralReached ==
  /\ DescriptionDone
  /\ info = ZeroTraits
  /\ out.ret = NeutralSentence

---------------------------------------------------------------------------
(* C27: no use case is both recommended and discouraged                    *)

\* the use cases that are in both lists of the profile
InBothLists(profile) ==
  Range(profile.suitable_use_cases.suitable_for)
    \cap Range(profile.suitable_use_cases.less_suitable_for)

\* C27: in every profile of analyze_font_personality no use-case string is in
\* both suitable_for and less_suitable_for.
C27_Original ==
  PersonalityDone => InBothLists(out) = {}

\* 'Legal documents' is the only use case that is ever in both lists, and
\* only for formality > 0, modernity > 0, playfulness > 1 and creativity > 1
C27_OnlyLegalDocuments ==
  PersonalityDone =>
    /\ InBothLists(out) \subseteq {"Legal documents"}
    /\ InBothLists(out) # {} =>
         /\ out.traits["formality"] > 0 /\ out.traits["modernity"] > 0
         /\ out.traits["playfulness"] > H(1) /\ out.traits["creativity"] > H(1)

\* a condensed script font with very curvy shapes, a small x-height and an
\* ascender ratio of 0.8: formality 1, modernity 0.5, playfulness 2 and
\* creativity 1.5
C27_LegalDocumentsTwice ==
  /\ PersonalityDone
  /\ Has(info, "style") /\ info.style = "script"
  /\ info.width.description = "Condensed"
  /\ info.weight.weight_by_stroke = "regular"
  /\ info.spacing.spacing_type = "medium"
  /\ info.shape.type = "very curvy"
  /\ info.vertical_metrics = [x_height_class |-> "small", ascender_ratio |-> Rat(8, 10),
                              descender_ratio |-> Rat(2, 10)]
  /\ info.contrast.contrast_type = "unknown"
  /\ out.traits["formality"] = H(1) /\ out.traits["modernity"] = Half
  /\ out.traits["playfulness"] = H(2) /\ out.traits["creativity"] = 3 * Half
  /\ "Legal documents" \in Range(out.suitable_use_cases.suitable_for)
  /\ "Legal documents" \in Range(out.suitable_use_cases.less_suitable_for)

---------------------------------------------------------------------------
(* C28: four traits that no rule touches                                   *)

UnscoredTraits == {"trustworthiness", "professionalism", "warmth", "dynamism"}

PhraseLevels == {"strong", "mild", "strong_neg", "mild_neg"}

\* C28: in every profile of the non-error path the traits trustworthiness,
\* professionalism, warmth and dynamism are exactly 0; they are never among
\* the dominant traits and none of their phrases is in the description.
C28_UnscoredTraits ==
  (PersonalityDone /\ out # ErrorProfile) =>
    \A t \in UnscoredTraits :
      /\ out.traits[t] = 0
      /\ \A i \in DOMAIN out.dominant_traits : out.dominant_traits[i][1] # t
      /\ \A l \in PhraseLevels : Phrase(t, l) \notin Range(out.emotional_description)

\* C28 witness: a script font with loose spacing has three dominant traits
\* and a description of several phrases, and the four traits are 0.
C28_Witness ==
  /\ PersonalityDone /\ out # ErrorProfile
  /\ info.style = "script" /\ info.spacing.spacing_type = "loose"
  /\ Len(out.dominant_traits) = 3
  /\ Len(out.emotional_description) > 5
  /\ \A t \in UnscoredTraits : out.traits[t] = 0

---------------------------------------------------------------------------
(* analyze_font_personality on two font_info dicts of one run              *)

\* the entries of the weight and width records that extract_font_properties
\* stores besides weight_by_stroke and the width description
IgnoredEntries ==
  { [class |-> 400, description |-> "Regular", stroke_width |-> None,
     normalized_stroke_width |-> None, width_class |-> 5, aspect_ratio |-> None,
     width_by_aspect |-> "unknown"],
    [class |-> 900, description |-> "Black", stroke_width |-> RInt(200),
     normalized_stroke_width |-> Rat(2, 10), width_class |-> 1,
     aspect_ratio |-> Rat(1, 2), width_by_aspect |-> "condensed"],
    [class |-> 100, description |-> "Thin", stroke_width |-> RInt(40),
     normalized_stroke_width |-> Rat(4, 100), width_class |-> 9,
     aspect_ratio |-> Rat(3, 2), width_by_aspect |-> "expanded"],
    [class |-> 700, description |-> "Bold", stroke_width |-> RInt(90),
     normalized_stroke_width |-> Rat(9, 100), width_class |-> 5,
     aspect_ratio |-> Rat(8, 10), width_by_aspect |-> "normal"] }

\* the font_info of extract_font_properties with the entries the rules read
\* (base) and those they do not (ignored)
InfoWith(base, ignored) ==
  [style |-> base.style,
   weight |-> [class |-> ignored.class, description |-> ignored.description,
               stroke_width |-> ignored.stroke_width,
               normalized_stroke_width |-> ignored.normalized_stroke_width,
               weight_by_stroke |-> base.weight_by_stroke],
   width |-> [class |-> ignored.width_class, description |-> base.width_desc,
              aspect_ratio |-> ignored.aspect_ratio,
              width_by_aspect |-> ignored.width_by_aspect],
   shape |-> base.shape,
   spacing |-> [width_type |-> "medium", spacing_type |-> base.spacing_type],
   vertical_metrics |-> base.vertical_metrics,
   contrast |-> base.contrast]

PairBases ==
  [style : InfoStyles,
   weight_by_stroke : {"light", "regular", "bold", "black", "unknown"},
   width_desc : {"Condensed", "Normal", "Expanded"},
   shape : { [type |-> "very curvy"], [type |-> "angular"] },
   spacing_type : {"tight", "loose"},
   vertical_metrics : { [x_height_class |-> "small", ascender_ratio |-> Rat(8, 10),
                         descender_ratio |-> Rat(2, 10)],
                        [error |-> "Missing required tables for vertical metrics analysis"] },
   contrast : { [contrast_type |-> "monoline"], [contrast_type |-> "high contrast"] }]

InfoPairs ==
  { <<InfoWith(b, i1), InfoWith(b, i2)>> :
      b \in PairBases, i1 \in IgnoredEntries, i2 \in IgnoredEntries }

InitPair ==
  /\ ttfont = NoFont
  /\ info \in InfoPairs
  /\ pc = "start"
  /\ op = "none"
  /\ out = NoResult

\* both dicts are analysed in one run of the interpreter
AnalyzeFontPersonalityTwice ==
  /\ pc = "start"
  /\ \E seed \in HashSeeds :
       out' = <<analyze_font_personality(info[1], seed),
                analyze_font_personality(info[2], seed)>>
  /\ pc' = "done"
  /\ op' = "analyze_font_personality twice"
  /\ UNCHANGED <<ttfont, info>>

NextPair == AnalyzeFontPersonalityTwice

SpecPair == InitPair /\ [][NextPair]_vars

---------------------------------------------------------------------------
(* C29: the profile does not depend on the weight class or on the measured *)
(* widths                                                                  *)

PairDone == Done("analyze_font_personality twice")

\* the two dicts agree on everything but weight.class, weight.description,
\* weight.stroke_width, weight.normalized_stroke_width, width.class,
\* width.aspect_ratio and width.width_by_aspect
DifferOnlyInIgnored(a, b) ==
  /\ DOMAIN a = DOMAIN b /\ DOMAIN a.weight = DOMAIN b.weight
  /\ DOMAIN a.width = DOMAIN b.width
  /\ \A k \in DOMAIN a \ {"weight", "width"} : a[k] = b[k]
  /\ a.weight.weight_by_stroke = b.weight.weight_by_stroke
  /\ a.width.description = b.width.description

\* C29: two font_info dicts that differ only in weight.class,
\* weight.description, weight.stroke_width, weight.normalized_stroke_width,
\* width.class, width.aspect_ratio and width.width_by_aspect get identical
\* traits, descriptions, dominant traits and use-case lists.
C29_Independent ==
  (PairDone /\ DifferOnlyInIgnored(info[1], info[2])) =>
    /\ out[1].traits = out[2].traits
    /\ out[1].emotional_description = out[2].emotional_description
    /\ out[1].dominant_traits = out[2].dominant_traits
    /\ out[1].suitable_use_cases = out[2].suitable_use_cases

\* C29 witness: weight class 100 with width class 9 against weight class 900
\* with width class 1, for a serif font with the stroke label 'regular': both
\* profiles list 'Long-form reading' and have the same traits.
C29_Witness ==
  /\ PairDone /\ DifferOnlyInIgnored(info[1], info[2])
  /\ info[1].weight.class = 100 /\ info[2].weight.class = 900
  /\ info[1].width.class = 9 /\ info[2].width.class = 1
  /\ info[1].style = "serif" /\ info[1].weight.weight_by_stroke = "regular"
  /\ out[1] # ErrorProfile
  /\ out[1].traits = out[2].traits
  /\ out[1].traits["formality"] > 0
  /\ "Long-form reading" \in Range(out[1].suitable_use_cases.suitable_for)
  /\ "Long-form reading" \in Range(out[2].suitable_use_cases.suitable_for)

---------------------------------------------------------------------------
(* extract_font_properties on outline-less fonts of every weight class     *)

\* the OS/2 weight classes 100 to 900 in steps of 50
WeightScale == { 50 * k : k \in 2..18 }

\* serif, sans-serif and script by their names
WeightProfiles ==
  { p \in Profiles :
      p.family \in {<<"Noto Serif">>, <<"Roboto Sans">>, <<"Brush Script">>} }

WeightFonts ==
  { MakeFont(o, {}, CmapLatin, p, w) :
      o \in {"CFF ", "none"}, p \in WeightProfiles, w \in WeightScale }

InitWeight ==
  /\ ttfont \in WeightFonts
  /\ info = NoInfo
  /\ pc = "start"
  /\ op = "none"
  /\ out = NoResult

NextWeight == ExtractFontProperties

SpecWeight == InitWeight /\ [][NextWeight]_vars

---------------------------------------------------------------------------
(* C30: strength against the weight class of outline-less fonts            *)

\* C30: of two outline-less fonts that differ in the OS/2 weight class only,
\* w1 <= w2 anywhere on the scale from 100 to 900, the strength of the w1
\* font is less than or equal to the strength of the w2 font.
C30_Original ==
  (ExtractDone /\ out # Aborted /\ ~HasTable(ttfont, "glyf")) =>
    \A w1 \in WeightScale :
      w1 <= ttfont.OS2.usWeightClass =>
        \A s \in Strengths(WithWeightClass(ttfont, w1)) :
          s <= out.personality.traits["strength"]

\* the weight classes that classify_weight_by_value labels neither 'extra
\* light' nor 'semi bold'
RuledWeightClasses == { w \in WeightScale : (w <= 150 \/ w > 250) /\ (w <= 550 \/ w > 650) }

\* among these the strength does not decrease
C30_MonotoneOnRuledClasses ==
  (/\ ExtractDone /\ out # Aborted /\ ~HasTable(ttfont, "glyf")
   /\ ttfont.OS2.usWeightClass \in RuledWeightClasses) =>
    \A w1 \in RuledWeightClasses :
      w1 <= ttfont.OS2.usWeightClass =>
        \A s \in Strengths(WithWeightClass(ttfont, w1)) :
          s <= out.personality.traits["strength"]

\* a CFF font of weight class 300 ('light') has the strength -1, its twin of
\* weight class 200 ('extra light') the strength 0
C30_LightBelowExtraLight ==
  /\ ExtractDone /\ out # Aborted
  /\ HasTable(ttfont, "CFF ")
  /\ ttfont.OS2.usWeightClass = 300
  /\ out.weight.weight_by_stroke = "light"
  /\ out.personality.traits["strength"] = -H(1)
  /\ Strengths(WithWeightClass(ttfont, 200)) = {0}

\* a CFF font of weight class 600 ('semi bold') has the strength 0, its twin
\* of weight class 500 ('medium') the strength 1
C30_SemiBoldBelowMedium ==
  /\ ExtractDone /\ out # Aborted
  /\ HasTable(ttfont, "CFF ")
  /\ ttfont.OS2.usWeightClass = 600
  /\ out.weight.weight_by_stroke = "semi bold"
  /\ out.personality.traits["strength"] = 0
  /\ Strengths(WithWeightClass(ttfont, 500)) = {H(1)}

=============================================================================
